---- MODULE Spec2Model ----
(***************************************************************************)
(* Command protocol layer of the digital-twin browser service:             *)
(*   - ConnectionManager (src/mcp_server.py): the registry of duplex       *)
(*     connections, its connect / disconnect / broadcast operations;       *)
(*   - MCPServer.handle_command, MCPServer.handle_generic_command and      *)
(*     MCPAdapter (src/mcp_adapter.py): command dispatch and the           *)
(*     correlated response.                                                *)
(*                                                                         *)
(* Strings that the code builds with "_" and takes apart with split('_')   *)
(* are sequences of their "_"-separated segments: "a_b" is <<"a","b">>,    *)
(* the empty string (and None, equally falsy) is << >>.                    *)
(***************************************************************************)
EXTENDS Integers, Sequences, FiniteSets, TLC

VARIABLES
    active_connections,    \* ConnectionManager.active_connections: client_id -> record
    endpoint_connections,  \* ConnectionManager.endpoint_connections: channel -> (client_id -> websocket)
    nextWs,                \* the next transport the server accepts (transports are 1, 2, ...)
    transports,            \* transport -> what its endpoint handler holds: endpoint_type, client_id
    calls                  \* task -> the frame of the call the task runs (or ran last)

vars == <<active_connections, endpoint_connections, nextWs, transports, calls>>

----------------------------------------------------------------------------
(* Bounds and input sets *)

\* Number of transports the server accepts in one run.
MaxWs == 2

Hosts == {"h1", "h2"}

\* The keys of endpoint_connections, in the order __init__ inserts them.
ChannelOrder == <<"status", "health", "command", "general">>

Channels == {ChannelOrder[i] : i \in 1..Len(ChannelOrder)}

\* endpoint_type values the endpoints pass to connect.
ConnectChannels == {"command", "status"}

\* endpoint_type values passed to broadcast; << >> would be a string too, so
\* None is the empty string here.
BroadcastChannels == {"", "command", "status"}

EmptyStr == << >>

\* sessionId values of a first message; cookie values of digital_twin_session_id.
MessageTokens == {<<"a", "b">>}

CookieTokens == {<<"a">>}

UserAgents == {"ua"}

\* Whether the session_confirm send_json on the just accepted transport returns.
ConfirmOutcomes == {TRUE}

WsIds == 1..(MaxWs + 1)

NoWs == 0

\* random.choices(ascii_letters + digits, k=8): no "_" in it; one token per transport.
RandomToken(ws) == <<<<"r1", "r2", "r3", "r4", "r5">>[ws]>>

\* hashlib.md5(user_agent.encode()).hexdigest()[:8]: hex digits, no "_".
Md5Hex8(ua) == <<"m">>

SessionTokens ==
    MessageTokens \cup (CookieTokens \ {EmptyStr}) \cup {Md5Hex8(u) : u \in UserAgents \ {""}}
        \cup {RandomToken(w) : w \in WsIds}

\* f"{websocket.client.host}_{session_id}"
ClientIdOf(host, session_id) == <<host>> \o session_id

ClientIds == {ClientIdOf(h, s) : h \in Hosts, s \in SessionTokens}

Tasks == {"t1", "t2"}

\* The task of the event loop that the sequential specification runs.
Main == "t1"

Idle == [op |-> "idle", pc |-> "done"]

----------------------------------------------------------------------------
(* Python dict helpers *)

DictDel(d, k) == [x \in DOMAIN d \ {k} |-> d[x]]

DictPut(d, k, v) == [x \in DOMAIN d \cup {k} |-> IF x = k THEN v ELSE d[x]]

EmptyDict == [x \in {} |-> 0]

Items(d) == {<<k, d[k]>> : k \in DOMAIN d}

----------------------------------------------------------------------------
(* ConnectionManager.__init__ *)

InitActive == EmptyDict

InitEndpoints == [ch \in Channels |-> EmptyDict]

----------------------------------------------------------------------------
(* ConnectionManager.connect: session token and client id *)

\* An outcome of wait_for(websocket.receive_json(), timeout=0.5), line 192:
\* kind "timeout" (asyncio.TimeoutError), "message" (a value was received; has
\* tells whether it is a dict with a "sessionId" key), "decode_error"
\* (json.JSONDecodeError) or "receive_error" (any other exception).
NoMessage == [kind |-> "timeout", has |-> FALSE, sessionId |-> EmptyStr]

\* What receive_json yields within the 0.5 s wait: nothing (timeout), or a
\* dict with a "sessionId" key.
FirstMessages ==
    {NoMessage} \cup {[kind |-> "message", has |-> TRUE, sessionId |-> m] : m \in MessageTokens}

\* Every outcome of the wait: the two above, a message without "sessionId", a
\* message whose "sessionId" is "", undecodable text, and a receive that raises.
WaitOutcomes ==
    FirstMessages \cup
    {[kind |-> "message", has |-> FALSE, sessionId |-> EmptyStr],
     [kind |-> "message", has |-> TRUE, sessionId |-> EmptyStr],
     [kind |-> "decode_error", has |-> FALSE, sessionId |-> EmptyStr],
     [kind |-> "receive_error", has |-> FALSE, sessionId |-> EmptyStr]}

\* Lines 176-218.  cookieSid is the value parsed out of the cookie header
\* ("" when the header lacks digital_twin_session_id); confirmOk is whether the
\* session_confirm send_json returns (it raises into the outer except otherwise).
\* The inner except (line 202) takes TimeoutError and JSONDecodeError only:
\* any other exception of the receive reaches the outer except (lines 214-216).
DeriveSession(cookieSid, msg, confirmOk, ua, ws) ==
    IF msg.kind = "receive_error" \/ (msg.has /\ ~confirmOk)
    THEN RandomToken(ws)
    ELSE LET sid == IF msg.has THEN msg.sessionId ELSE cookieSid
         IN IF sid # EmptyStr THEN sid
            ELSE IF ua # "" THEN Md5Hex8(ua)
            ELSE RandomToken(ws)

\* existing_id.split('_')[1] if '_' in existing_id else ""
ExistingSessionId(existing_id) ==
    IF Len(existing_id) >= 2 THEN <<existing_id[2]>> ELSE EmptyStr

\* The condition of lines 227-229 on one entry of active_connections.
IsDuplicate(existing_id, existing_conn, client_id, endpoint_type, session_id) ==
    /\ existing_id # client_id
    /\ existing_conn.endpoint_type = endpoint_type
    /\ ExistingSessionId(existing_id) = session_id

----------------------------------------------------------------------------
(* ConnectionManager.disconnect (synchronous): the registry after the call *)
(* and the client ids it logged as removed.                                *)

\* disconnect with the comparison of line 281 inverted.
disconnect_OtherTransports(ac, ec, websocket, client_id) ==
    IF client_id # EmptyStr /\ client_id \in DOMAIN ac
    THEN LET ep == ac[client_id].endpoint_type
         IN [ac |-> DictDel(ac, client_id),
             ec |-> IF ep \in DOMAIN ec /\ client_id \in DOMAIN ec[ep]
                    THEN [ec EXCEPT ![ep] = DictDel(@, client_id)]
                    ELSE ec,
             removed |-> {client_id}]
    ELSE LET to_remove == {cid \in DOMAIN ac : ac[cid].websocket # websocket}
         IN [ac |-> [cid \in DOMAIN ac \ to_remove |-> ac[cid]],
             ec |-> [ch \in DOMAIN ec |->
                       [cid \in DOMAIN ec[ch] \
                            {x \in to_remove : ac[x].endpoint_type = ch} |-> ec[ch][cid]]],
             removed |-> to_remove]

disconnect(ac, ec, websocket, client_id) ==
    IF client_id # EmptyStr /\ client_id \in DOMAIN ac
    THEN LET ep == ac[client_id].endpoint_type
         IN [ac |-> DictDel(ac, client_id),
             ec |-> IF ep \in DOMAIN ec /\ client_id \in DOMAIN ec[ep]
                    THEN [ec EXCEPT ![ep] = DictDel(@, client_id)]
                    ELSE ec,
             removed |-> {client_id}]
    ELSE LET to_remove == {cid \in DOMAIN ac : ac[cid].websocket = websocket}
         IN [ac |-> [cid \in DOMAIN ac \ to_remove |-> ac[cid]],
             ec |-> [ch \in DOMAIN ec |->
                       [cid \in DOMAIN ec[ch] \
                            {x \in to_remove : ac[x].endpoint_type = ch} |-> ec[ch][cid]]],
             removed |-> to_remove]

\* Lines 245-257: save the connection in both indices.
Register(ac, ec, websocket, endpoint_type, session_id, client_id) ==
    LET ec1 == IF endpoint_type \in DOMAIN ec THEN ec
               ELSE DictPut(ec, endpoint_type, EmptyDict)
    IN [ac |-> DictPut(ac, client_id,
                       [websocket |-> websocket, endpoint_type |-> endpoint_type,
                        session_id |-> session_id]),
        ec |-> [ec1 EXCEPT ![endpoint_type] = DictPut(@, client_id, websocket)]]

----------------------------------------------------------------------------
(* State *)

Init ==
    /\ active_connections = InitActive
    /\ endpoint_connections = InitEndpoints
    /\ nextWs = 1
    /\ transports = EmptyDict
    /\ calls = [t \in Tasks |-> Idle]

\* A task runs one call at a time: it starts a call when the last one returned.
Ready(t) == calls[t].pc = "done"

SetCall(t, frame) == calls' = [calls EXCEPT ![t] = frame]

----------------------------------------------------------------------------
(* ConnectionManager.connect, one action per stretch between awaits *)

\* Lines 191-222 for the transport accepted at line 174: the outcome of the
\* bounded wait, the session token, the client id.  cookie, user_agent, first
\* and confirmed keep the inputs of the derivation for observation.
ConnectDerive(t, host, endpoint_type, cookieSid, msg, confirmOk, ua) ==
    /\ nextWs <= MaxWs
    /\ LET ws == nextWs
           sid == DeriveSession(cookieSid, msg, confirmOk, ua, ws)
       IN SetCall(t, [op |-> "connect", pc |-> "scan", websocket |-> ws,
                      endpoint_type |-> endpoint_type, session_id |-> sid,
                      client_id |-> ClientIdOf(host, sid),
                      pending |-> {}, cur |-> <<EmptyStr, NoWs>>,
                      dups |-> {}, events |-> << >>,
                      cookie |-> cookieSid, user_agent |-> ua,
                      first |-> msg, confirmed |-> confirmOk])
    /\ nextWs' = nextWs + 1
    /\ transports' = DictPut(transports, nextWs,
                              [endpoint_type |-> endpoint_type,
                               client_id |-> ClientIdOf(host,
                                   DeriveSession(cookieSid, msg, confirmOk, ua, nextWs))])
    /\ UNCHANGED <<active_connections, endpoint_connections>>

\* Lines 174-222: accept, derive the session token, build the client id.
ConnectAccept(t, host, endpoint_type, cookieSid, msg, confirmOk, ua) ==
    /\ Ready(t)
    /\ ConnectDerive(t, host, endpoint_type, cookieSid, msg, confirmOk, ua)

\* The frame and registry once the loop of lines 225-243 has no entry left:
\* lines 245-261.
ConnectFinish(t, f, ac, ec) ==
    LET r == Register(ac, ec, f.websocket, f.endpoint_type, f.session_id, f.client_id)
    IN /\ active_connections' = r.ac
       /\ endpoint_connections' = r.ec
       /\ SetCall(t, [f EXCEPT !.pc = "done",
                               !.events = Append(@, <<"register", f.client_id>>)])

\* Line 225: list(self.active_connections.items()) and the entries of it that
\* lines 227-229 select.  dups records, for observation only, the client ids
\* that are live with the new connection's session_id and endpoint_type.
ConnectScan(t) ==
    LET f == calls[t]
        ac == active_connections
        sel == {<<id, ac[id].websocket>> : id \in
                   {x \in DOMAIN ac :
                       IsDuplicate(x, ac[x], f.client_id, f.endpoint_type, f.session_id)}}
        g == [f EXCEPT !.pending = sel,
                       !.dups = {x \in DOMAIN ac :
                                    /\ ac[x].session_id = f.session_id
                                    /\ ac[x].endpoint_type = f.endpoint_type}]
    IN /\ f.op = "connect" /\ f.pc = "scan"
       /\ IF sel = {}
          THEN ConnectFinish(t, g, active_connections, endpoint_connections)
          ELSE /\ SetCall(t, [g EXCEPT !.pc = "notice"])
               /\ UNCHANGED <<active_connections, endpoint_connections>>
       /\ UNCHANGED <<nextWs, transports>>

\* The loop with no finally clause: the entry stays in the registry.
ConnectRetire_Kept(t, f, e) ==
    LET g == [f EXCEPT !.pending = @ \ {e}, !.cur = <<EmptyStr, NoWs>>,
                       !.events = Append(@, <<"remove", e[1]>>)]
    IN IF g.pending = {}
       THEN ConnectFinish(t, g, active_connections, endpoint_connections)
       ELSE /\ UNCHANGED <<active_connections, endpoint_connections>>
            /\ SetCall(t, [g EXCEPT !.pc = "notice"])

\* Line 243 (finally) for entry e, then the next entry or lines 245-261.
ConnectRetire(t, f, e) ==
    LET d == disconnect(active_connections, endpoint_connections, e[2], e[1])
        g == [f EXCEPT !.pending = @ \ {e}, !.cur = <<EmptyStr, NoWs>>,
                       !.events = Append(@, <<"remove", e[1]>>)]
    IN IF g.pending = {}
       THEN ConnectFinish(t, g, d.ac, d.ec)
       ELSE /\ active_connections' = d.ac
            /\ endpoint_connections' = d.ec
            /\ SetCall(t, [g EXCEPT !.pc = "notice"])

\* Lines 233-238: send the close notice to the next selected entry.
ConnectNotice(t, ok) ==
    LET f == calls[t]
    IN /\ f.op = "connect" /\ f.pc = "notice"
       /\ \E e \in f.pending :
            LET g == [f EXCEPT !.events = Append(@, <<"notice", e[1]>>)]
            IN IF ok
               THEN /\ SetCall(t, [g EXCEPT !.pc = "close", !.cur = e])
                    /\ UNCHANGED <<active_connections, endpoint_connections>>
               ELSE ConnectRetire(t, g, e)
       /\ UNCHANGED <<nextWs, transports>>

\* Line 239: close the old transport; whether close returns or raises, line 243
\* runs next.
ConnectClose(t) ==
    LET f == calls[t]
    IN /\ f.op = "connect" /\ f.pc = "close"
       /\ ConnectRetire(t, [f EXCEPT !.events = Append(@, <<"close", f.cur[1]>>)], f.cur)
       /\ UNCHANGED <<nextWs, transports>>

----------------------------------------------------------------------------
(* ConnectionManager.disconnect as called by the endpoints *)

\* again: the call repeats the arguments of the call that returned just before
\* it; firstRemoved: what the first call of such a run removed.
Disconnect(t, websocket, client_id) ==
    LET f == calls[t]
        d == disconnect(active_connections, endpoint_connections, websocket, client_id)
        rep == f.op = "disconnect" /\ f.websocket = websocket /\ f.client_id = client_id
    IN /\ Ready(t)
       /\ active_connections' = d.ac
       /\ endpoint_connections' = d.ec
       /\ SetCall(t, [op |-> "disconnect", pc |-> "done", websocket |-> websocket,
                      client_id |-> client_id, removed |-> d.removed,
                      again |-> rep,
                      firstRemoved |-> IF rep THEN f.firstRemoved ELSE d.removed])
       /\ UNCHANGED <<nextWs, transports>>

----------------------------------------------------------------------------
(* ConnectionManager.broadcast *)

\* Lines 309-310: target_connections.update(connections) over the channels in
\* dict order; a client id present in several channels keeps the last one's
\* websocket.
MergedTargets(ec) ==
    LET ids == UNION {DOMAIN ec[ch] : ch \in DOMAIN ec}
        last(cid) == CHOOSE i \in 1..Len(ChannelOrder) :
                        /\ cid \in DOMAIN ec[ChannelOrder[i]]
                        /\ \A j \in (i+1)..Len(ChannelOrder) :
                              cid \notin DOMAIN ec[ChannelOrder[j]]
    IN [cid \in ids |-> ec[ChannelOrder[last(cid)]][cid]]

\* Lines 303-310 with the endpoint_type branch dropped.
BroadcastTargets_AllChannels(ec, endpoint_type) == MergedTargets(ec)

\* Lines 303-310.
BroadcastTargets(ec, endpoint_type) ==
    IF endpoint_type # "" /\ endpoint_type \in DOMAIN ec
    THEN ec[endpoint_type]
    ELSE MergedTargets(ec)

\* Lines 321-322: the entries of the snapshot the loop does not skip.
NotExcluded(items, exclude_client_id) ==
    {p \in items : ~(exclude_client_id # EmptyStr /\ p[1] = exclude_client_id)}

\* Lines 331-336: the registry after the cleanup of disconnected_clients.
Prune(ac, ec, endpoint_type, disconnected_clients) ==
    [ac |-> [cid \in DOMAIN ac \ disconnected_clients |-> ac[cid]],
     ec |-> IF endpoint_type # "" /\ endpoint_type \in DOMAIN ec
            THEN [ec EXCEPT ![endpoint_type] =
                     [cid \in DOMAIN @ \ disconnected_clients |-> @[cid]]]
            ELSE ec]

\* Lines 338-343 with the test success_count > 1.
BroadcastResult_MoreThanOne(success_count) == success_count > 1

\* Lines 338-343: the value broadcast returns.
BroadcastResult(success_count) == success_count > 0

\* Line 314 returning True.
NoTargetResult_True == TRUE

\* Line 314: what broadcast returns when target_connections is empty.
NoTargetResult == FALSE

\* Lines 302-319, up to the first send.  For observation, sends counts the
\* send_json calls made on each entry of the snapshot, attempts counts them
\* all, and returned holds the entries whose send_json returned.
BroadcastBegin(ec, endpoint_type, exclude_client_id) ==
    LET targets == BroadcastTargets(ec, endpoint_type)
        items == Items(targets)
        f == [op |-> "broadcast", pc |-> "sweep", endpoint_type |-> endpoint_type,
              exclude_client_id |-> exclude_client_id,
              todo |-> NotExcluded(items, exclude_client_id),
              sends |-> [p \in items |-> 0], returned |-> {},
              disconnected_clients |-> {}, success_count |-> 0, attempts |-> 0,
              result |-> FALSE]
    IN IF targets = EmptyDict
       THEN [op |-> "broadcast", pc |-> "done", endpoint_type |-> endpoint_type,
             success_count |-> 0, delivered |-> 0, attempts |-> 0,
             result |-> NoTargetResult]
       ELSE [f EXCEPT !.pc = IF f.todo = {} THEN "cleanup" ELSE "sweep"]

\* Lines 324-329 for the entry p of the snapshot: send_json returns (ok) or raises.
BroadcastSent(f, p, ok) ==
    LET g == [f EXCEPT !.todo = @ \ {p},
                       !.sends[p] = @ + 1,
                       !.attempts = @ + 1,
                       !.returned = IF ok THEN @ \cup {p} ELSE @,
                       !.success_count = IF ok THEN @ + 1 ELSE @,
                       !.disconnected_clients = IF ok THEN @ ELSE @ \cup {p[1]}]
    IN [g EXCEPT !.pc = IF g.todo = {} THEN "cleanup" ELSE "sweep"]

\* Lines 338-343: the frame of the returned call.  It keeps what the caller
\* gets, the count it was made from and the number of entries whose send
\* returned.
BroadcastReturned(f) ==
    [op |-> "broadcast", pc |-> "done", endpoint_type |-> f.endpoint_type,
     success_count |-> f.success_count,
     delivered |-> Cardinality(f.returned),
     attempts |-> f.attempts,
     result |-> BroadcastResult(f.success_count)]

BroadcastStart(t, endpoint_type, exclude_client_id) ==
    /\ Ready(t)
    /\ SetCall(t, BroadcastBegin(endpoint_connections, endpoint_type, exclude_client_id))
    /\ UNCHANGED <<active_connections, endpoint_connections, nextWs, transports>>

\* One send of the sweep.
BroadcastSend(t, ok) ==
    LET f == calls[t]
    IN /\ f.op = "broadcast" /\ f.pc = "sweep"
       /\ \E p \in f.todo : SetCall(t, BroadcastSent(f, p, ok))
       /\ UNCHANGED <<active_connections, endpoint_connections, nextWs, transports>>

\* Lines 331-343, which follow the last send without an await: cleanup and
\* return.
BroadcastReturn(t) ==
    LET f == calls[t]
        r == Prune(active_connections, endpoint_connections,
                   f.endpoint_type, f.disconnected_clients)
    IN /\ f.op = "broadcast" /\ f.pc = "cleanup"
       /\ active_connections' = r.ac
       /\ endpoint_connections' = r.ec
       /\ SetCall(t, BroadcastReturned(f))
       /\ UNCHANGED <<nextWs, transports>>

----------------------------------------------------------------------------
(* ConnectionManager.send_to_client *)

\* The except clause of lines 356-360 leaving the registry alone.
SendFailure_KeepsRecord(ac, ec, client_id) == [ac |-> ac, ec |-> ec, removed |-> {}]

\* Line 359: self.disconnect(None, client_id).
SendFailure(ac, ec, client_id) == disconnect(ac, ec, NoWs, client_id)

\* Lines 347-352: an unknown client id returns False; otherwise the websocket
\* of the record is taken and send_json awaited.
SendToClientStart(t, client_id) ==
    /\ Ready(t)
    /\ IF client_id \notin DOMAIN active_connections
       THEN SetCall(t, [op |-> "send_to_client", pc |-> "done", client_id |-> client_id,
                        websocket |-> NoWs, raised |-> FALSE, result |-> FALSE])
       ELSE SetCall(t, [op |-> "send_to_client", pc |-> "send", client_id |-> client_id,
                        websocket |-> active_connections[client_id].websocket,
                        raised |-> FALSE, result |-> FALSE])
    /\ UNCHANGED <<active_connections, endpoint_connections, nextWs, transports>>

\* Lines 353-360: send_json returns (ok) and the call returns True, or it
\* raises and the except clause disconnects the client id and returns False.
SendToClientSend(t, ok) ==
    LET f == calls[t]
        r == IF ok THEN [ac |-> active_connections, ec |-> endpoint_connections]
             ELSE SendFailure(active_connections, endpoint_connections, f.client_id)
    IN /\ f.op = "send_to_client" /\ f.pc = "send"
       /\ active_connections' = r.ac
       /\ endpoint_connections' = r.ec
       /\ SetCall(t, [f EXCEPT !.pc = "done", !.raised = ~ok, !.result = ok])
       /\ UNCHANGED <<nextWs, transports>>

----------------------------------------------------------------------------
(* The event loop running one call at a time *)

\* The client ids passed to send_to_client: the registered ones and one that
\* need not be registered.
SendToClientArgs == DOMAIN active_connections \cup {ClientIdOf("h1", <<"a">>)}

\* The arguments passed to disconnect: an endpoint handler's own transport,
\* with the client id connect returned to it or without a client id.
DisconnectArgs ==
    {<<ws, transports[ws].client_id>> : ws \in DOMAIN transports}
        \cup {<<ws, EmptyStr>> : ws \in DOMAIN transports}

Next ==
    \/ \E host \in Hosts, ep \in ConnectChannels, c \in CookieTokens,
          m \in FirstMessages, ok \in ConfirmOutcomes, ua \in UserAgents :
          ConnectAccept(Main, host, ep, c, m, ok, ua)
    \/ ConnectScan(Main)
    \/ \E ok \in BOOLEAN : ConnectNotice(Main, ok)
    \/ ConnectClose(Main)
    \/ \E a \in DisconnectArgs : Disconnect(Main, a[1], a[2])
    \/ \E ep \in BroadcastChannels :
          \E ex \in {EmptyStr} \cup DOMAIN BroadcastTargets(endpoint_connections, ep) :
             BroadcastStart(Main, ep, ex)
    \/ \E ok \in BOOLEAN : BroadcastSend(Main, ok)
    \/ BroadcastReturn(Main)
    \/ \E cid \in SendToClientArgs : SendToClientStart(Main, cid)
    \/ \E ok \in BOOLEAN : SendToClientSend(Main, ok)

Spec == Init /\ [][Next]_vars

----------------------------------------------------------------------------
(* Properties of the connection registry *)

Frame == calls[Main]

\* No call is between two of its awaits.
Quiet == \A t \in Tasks : calls[t].pc = "done"

\* The (client_id, websocket) entries of the channel indices.
ChannelEntries(ec, chs) == UNION {Items(ec[ch]) : ch \in chs}

\* C1: once the connect calls have returned, active_connections holds at most
\* one record for each (session_id, endpoint_type) pair.
OneLivePerSessionChannel ==
    Quiet =>
        \A x, y \in DOMAIN active_connections :
            (/\ active_connections[x].session_id = active_connections[y].session_id
             /\ active_connections[x].endpoint_type = active_connections[y].endpoint_type)
            => x = y

\* Event e occurs in events at some position below n, after position m.
OccursBetween(events, e, m, n) == {i \in (m+1)..(n-1) : events[i] = e}

\* C2: when connect returns, every connection that was live with the same
\* session and the same channel has been sent the close notice, then had a
\* close attempted, then been removed, all before the new one was registered.
SupersededInOrder ==
    (Frame.op = "connect" /\ Frame.pc = "done") =>
        \A d \in Frame.dups :
            \E n \in 1..Len(Frame.events) :
                /\ Frame.events[n] = <<"register", Frame.client_id>>
                /\ \E i \in OccursBetween(Frame.events, <<"notice", d>>, 0, n) :
                   \E j \in OccursBetween(Frame.events, <<"close", d>>, i, n) :
                      OccursBetween(Frame.events, <<"remove", d>>, j, n) # {}

\* C3: a broadcast with endpoint_type "command" calls send_json only on
\* transports connected under "command", and on none that a channel index
\* other than "command" holds.
CommandBroadcastStaysOnChannel ==
    (Frame.op = "broadcast" /\ Frame.pc \in {"sweep", "cleanup"}
        /\ Frame.endpoint_type = "command") =>
        \A p \in DOMAIN Frame.sends :
            Frame.sends[p] > 0 =>
                /\ transports[p[2]].endpoint_type = "command"
                /\ \A q \in ChannelEntries(endpoint_connections, Channels \ {"command"}) :
                      q[2] # p[2]

CommandBroadcastWitness ==
    /\ Frame.op = "broadcast" /\ Frame.pc = "cleanup"
    /\ Frame.endpoint_type = "command"
    /\ \E p \in DOMAIN Frame.sends : Frame.sends[p] = 1
    /\ endpoint_connections["status"] # EmptyDict

\* The transports the registry holds: in active_connections, in a channel index.
Registered(ac, ec) ==
    {ac[x].websocket : x \in DOMAIN ac} \cup {q[2] : q \in ChannelEntries(ec, DOMAIN ec)}

\* C6: a disconnect called for a connection the registry holds (with the
\* client id connect returned for it, or with the transport alone) removes
\* that connection from active_connections and from the channel indices and
\* changes no entry of another connection in either index.
DisconnectRemovesExactlyThat ==
    [][ (calls'[Main].op = "disconnect"
            /\ calls'[Main].websocket \in Registered(active_connections, endpoint_connections)) =>
          LET ac == active_connections
              ec == endpoint_connections
              ws == calls'[Main].websocket
          IN /\ ws \notin Registered(active_connections', endpoint_connections')
             /\ \A x \in DOMAIN ac :
                   ac[x].websocket # ws =>
                      x \in DOMAIN active_connections' /\ active_connections'[x] = ac[x]
             /\ \A ch \in DOMAIN ec : \A x \in DOMAIN ec[ch] :
                   ec[ch][x] # ws =>
                      /\ x \in DOMAIN endpoint_connections'[ch]
                      /\ endpoint_connections'[ch][x] = ec[ch][x]
      ]_vars

\* C7: a disconnect that repeats the arguments of the disconnect just before
\* it leaves both indices as they were.
DisconnectTwiceIsNoOp ==
    [][ (calls'[Main].op = "disconnect" /\ calls'[Main].again) =>
          /\ active_connections' = active_connections
          /\ endpoint_connections' = endpoint_connections
      ]_vars

DisconnectTwiceWitness ==
    /\ Frame.op = "disconnect" /\ Frame.again
    /\ Frame.firstRemoved # {}
    /\ Frame.removed = {}
    /\ active_connections # EmptyDict

\* The connections a broadcast is addressed to: those of the given channel, or
\* those of all channels when none is given.
TargetSet(ec, endpoint_type) ==
    IF endpoint_type \in Channels
    THEN ChannelEntries(ec, {endpoint_type})
    ELSE ChannelEntries(ec, Channels)

\* C8: when the sweep of a broadcast has ended, send_json has been called
\* exactly once on every connection of the target set other than
\* exclude_client_id, and never on exclude_client_id.
BroadcastSendsOnceToEach ==
    (Frame.op = "broadcast" /\ Frame.pc = "cleanup") =>
        /\ \A q \in TargetSet(endpoint_connections, Frame.endpoint_type) :
              IF Frame.exclude_client_id # EmptyStr /\ q[1] = Frame.exclude_client_id
              THEN q \in DOMAIN Frame.sends => Frame.sends[q] = 0
              ELSE q \in DOMAIN Frame.sends /\ Frame.sends[q] = 1
        /\ \A p \in DOMAIN Frame.sends : Frame.sends[p] <= 1

\* C9: when broadcast returns, every connection whose send failed is absent from
\* active_connections and from the channel index that held it; and no index
\* changes while the sweep is under way.
BroadcastPrunesFailed ==
    [][ /\ (Frame.op = "broadcast" /\ Frame.pc = "cleanup" /\ calls'[Main].pc = "done") =>
             \A p \in DOMAIN Frame.sends :
                p[1] \in Frame.disconnected_clients =>
                   /\ p[1] \notin DOMAIN active_connections'
                   /\ p \notin ChannelEntries(endpoint_connections', Channels)
        /\ (Frame.op = "broadcast" /\ Frame.pc = "sweep") =>
             /\ active_connections' = active_connections
             /\ endpoint_connections' = endpoint_connections
      ]_vars

\* The step in which the send_json of a send_to_client call raises.
SendRaises ==
    /\ Frame.op = "send_to_client" /\ Frame.pc = "send"
    /\ calls'[Main].op = "send_to_client" /\ calls'[Main].pc = "done"
    /\ calls'[Main].raised

\* C12 as stated: when the send of send_to_client raises, the call returns
\* False and both indices are the same after the call as before it.
SendFailureKeepsRegistry ==
    [][ SendRaises =>
          /\ ~calls'[Main].result
          /\ active_connections' = active_connections
          /\ endpoint_connections' = endpoint_connections
      ]_vars

\* C12, amended: when the send of send_to_client raises, the call returns
\* False and removes the record of that client id: the client id is a key
\* neither of active_connections nor of the index of the record's channel
\* afterwards, and no other entry of either index changes.
SendFailureRemovesRecord ==
    [][ SendRaises =>
          LET cid == Frame.client_id
              ep == active_connections[cid].endpoint_type
          IN /\ ~calls'[Main].result
             /\ active_connections' = DictDel(active_connections, cid)
             /\ endpoint_connections' =
                   [endpoint_connections EXCEPT ![ep] = DictDel(@, cid)]
      ]_vars

\* A send_to_client call returned False after its send raised, with another
\* connection still registered.
SendFailureWitness ==
    /\ Frame.op = "send_to_client" /\ Frame.pc = "done"
    /\ Frame.raised /\ ~Frame.result
    /\ Frame.client_id \notin DOMAIN active_connections
    /\ active_connections # EmptyDict

\* Python's bool as a number: True == 1, False == 0.
IntOf(b) == IF b THEN 1 ELSE 0

\* C11: a broadcast called while the target set (the given channel, or all
\* channels when none is given) holds no connection returns at once with a
\* result that is 0 (False), having called send_json on nothing and changed
\* neither index.
BroadcastToNobody ==
    [][ (/\ calls[Main].pc = "done"
         /\ calls'[Main] # calls[Main]
         /\ calls'[Main].op = "broadcast"
         /\ TargetSet(endpoint_connections, calls'[Main].endpoint_type) = {}) =>
          /\ calls'[Main].pc = "done"
          /\ IntOf(calls'[Main].result) = 0
          /\ calls'[Main].attempts = 0
          /\ active_connections' = active_connections
          /\ endpoint_connections' = endpoint_connections
      ]_vars

\* A command broadcast returned without a send while only the status channel
\* held a connection.
BroadcastToNobodyWitness ==
    /\ Frame.op = "broadcast" /\ Frame.pc = "done"
    /\ Frame.endpoint_type = "command"
    /\ Frame.attempts = 0
    /\ ~Frame.result
    /\ endpoint_connections["command"] = EmptyDict
    /\ endpoint_connections["status"] # EmptyDict

\* C10 as stated: broadcast returns the number of connections whose send
\* succeeded.
BroadcastReturnsCount ==
    (Frame.op = "broadcast" /\ Frame.pc = "done") => IntOf(Frame.result) = Frame.delivered

\* C10 amended: broadcast returns True when at least one send succeeded during
\* the call and False otherwise.
BroadcastReturnsWhetherAny ==
    (Frame.op = "broadcast" /\ Frame.pc = "done") => Frame.result = (Frame.delivered > 0)

BroadcastReturnsWitness ==
    /\ Frame.op = "broadcast" /\ Frame.pc = "done"
    /\ Frame.delivered = 2
    /\ Frame.result = TRUE


----------------------------------------------------------------------------
(* Command dispatch: JSON values and the operation tables *)

\* A key the JSON object lacks; dict.get then yields None.
Absent == "<absent>"

\* A JSON array as a value: truthy, and unhashable as a dict key.
ListValue == "<list>"

\* str(uuid.uuid4()) and datetime.now().isoformat(): equal to no token a request carries.
Uuid == "<uuid4>"

IsoNow == "<isoformat>"

\* Python truthiness of a JSON string or None.
Truthy(v) == v \notin {Absent, ""}

\* a or b
Or(a, b) == IF Truthy(a) THEN a ELSE b

\* d.get(key, default) given d.get(key)
Get(v, default) == IF v = Absent THEN default ELSE v

Hashable(v) == v # ListValue

NoHandler == ""

\* MCPServer._register_default_handlers (str-valued enum members hash as their values).
operation_handlers ==
    [op \in {"rotate", "zoom", "focus", "reset", "highlight", "execute_js", "batch"} |->
        CASE op = "rotate" -> "execute_rotate_operation"
          [] op = "zoom" -> "execute_zoom_operation"
          [] op = "focus" -> "execute_focus_operation"
          [] op = "reset" -> "execute_reset_operation"
          [] op = "highlight" -> "execute_highlight_operation"
          [] op = "execute_js" -> "execute_js_operation"
          [] op = "batch" -> "execute_batch_operation"]

\* The actions a for which MCPServer has a callable attribute execute_{a}_operation.
MethodNames ==
    [a \in {"rotate", "zoom", "focus", "reset", "highlight", "js", "batch"} |->
        CASE a = "rotate" -> "execute_rotate_operation"
          [] a = "zoom" -> "execute_zoom_operation"
          [] a = "focus" -> "execute_focus_operation"
          [] a = "reset" -> "execute_reset_operation"
          [] a = "highlight" -> "execute_highlight_operation"
          [] a = "js" -> "execute_js_operation"
          [] a = "batch" -> "execute_batch_operation"]

\* MCPAdapter.__init__, lines 244-248.
command_handlers ==
    [a \in {"rotate", "zoom", "focus", "reset"} |->
        CASE a = "rotate" -> "_handle_rotate"
          [] a = "zoom" -> "_handle_zoom"
          [] a = "focus" -> "_handle_focus"
          [] a = "reset" -> "_handle_reset"]

\* get_handler with every operation type resolving to the reset handler.
get_handler_AnyOperation(operation_type) == "execute_reset_operation"

\* OperationHandler.get_handler: self.operations.get(operation_type), on a hashable key.
get_handler(operation_type) ==
    IF operation_type \in DOMAIN operation_handlers
    THEN operation_handlers[operation_type] ELSE NoHandler

\* Lines 572-580 and 1374-1381: the registry, then the execute_{action}_operation method.
ResolveHandler(action) ==
    LET handler == get_handler(action)
    IN IF handler # NoHandler THEN handler
       ELSE IF action \in DOMAIN MethodNames THEN MethodNames[action]
       ELSE NoHandler

\* Lines 374-376 of get_client_by_websocket; "" when no record holds the websocket
\* (the code then goes on to guess or to make up a client id, lines 378-401).
get_client_by_websocket(ac, websocket) ==
    LET found == {cid \in DOMAIN ac : ac[cid].websocket = websocket}
    IN IF found # {} THEN CHOOSE cid \in found : TRUE ELSE EmptyStr

Message(kind, name) == <<kind, name>>

Response(type, command_id, status, message) ==
    [type |-> type, command_id |-> command_id, status |-> status, message |-> message]

NoResponse == Response("", "", "", Message("", ""))

\* A handler's or a function's result dict: "success" and what the text names.
Result(success, message) == [success |-> success, message |-> message]

NoResult == Result(FALSE, Message("", ""))

\* What a built-in handler returns: a dict whose "success" is either value.
HandlerResults == {Result(TRUE, Message("handler", "")), Result(FALSE, Message("handler", ""))}

\* The await of a handler that raises instead of returning.
Raised == Result(FALSE, Message("<raised>", ""))

\* A handler registered with register_operation returns a dict or raises.
HandlerOutcomes == HandlerResults \cup {Raised}

\* What the except clauses of handle_generic_command (lines 1405-1411) and of
\* MCPAdapter.execute_command (lines 328-331) return for a handler that raised.
Caught(result) == IF result = Raised THEN Result(FALSE, Message("exception", "")) ELSE result

\* The fields of a received JSON object that the dispatch reads.
CommandData ==
    {[type |-> ty, id |-> id, command_id |-> cid, action |-> a, operation |-> o,
      has_command |-> FALSE, command_action |-> Absent, command_inner_id |-> Absent] :
        ty \in {"mcp.command", "zoom"}, id \in {Absent, "i1"},
        cid \in {Absent, "k1"}, a \in {Absent, "", "rotate", "js", "bogus", ListValue},
        o \in {Absent, "reset"}}
    \cup
    {[type |-> ty, id |-> id, command_id |-> cid, action |-> Absent, operation |-> o,
      has_command |-> TRUE, command_action |-> na, command_inner_id |-> ni] :
        ty \in {"mcp.command"}, id \in {Absent, "i1"},
        cid \in {Absent, "k1"}, o \in {Absent, "reset"},
        na \in {Absent, "", "rotate", "bogus", ListValue}, ni \in {Absent, "n1"}}


----------------------------------------------------------------------------
(* Command dispatch: each function up to its first await *)

\* Where a dispatch stands once the synchronous stretch is over: about to
\* await the handler ("invoke"), about to send ("respond"), or returned ("done").
Start(fn, pc, command_id, action, handler, response, returned) ==
    [fn |-> fn, pc |-> pc, command_id |-> command_id, action |-> action,
     handler |-> handler, response |-> response, returned |-> returned]

Status(result) == IF result.success THEN "success" ELSE "error"

\* MCPServer.handle_command, lines 510-588 and the except clause 621-631.
handle_command(command_data) ==
    LET command_id == Or(command_data.id, Or(command_data.command_id, Uuid))
        field == IF command_data.has_command
                 THEN command_data.command_action ELSE command_data.action
        action == IF Truthy(field) THEN field
                  ELSE IF command_data.type = "mcp.command" THEN command_data.operation
                  ELSE command_data.type
    IN IF ~Truthy(action)
       THEN Start("handle_command", "respond", command_id, action, NoHandler,
                  Response("mcp.response", command_id, "error",
                           Message("missing_operation", "")), NoResult)
       ELSE IF ~Hashable(action)
       THEN \* self.operations.get(action) raises TypeError: the except clause answers
            Start("handle_command", "respond", command_id, action, NoHandler,
                  Response("mcp.response", Get(command_data.id, Uuid), "error",
                           Message("exception", "")), NoResult)
       ELSE LET handler == ResolveHandler(action)
            IN IF handler = NoHandler
               THEN Start("handle_command", "respond", command_id, action, NoHandler,
                          Response("mcp.response", command_id, "error",
                                   Message("handler_not_found", action)), NoResult)
               ELSE Start("handle_command", "invoke", command_id, action, handler,
                          NoResponse, NoResult)

\* MCPServer.handle_generic_command, lines 1338-1387 and the except clause 1405-1411.
handle_generic_command(command) ==
    LET top == IF command.action # Absent THEN command.action
               ELSE IF command.operation # Absent THEN command.operation
               ELSE IF command.type # Absent /\ command.type # "mcp.command"
               THEN command.type
               ELSE Absent
        action == IF ~Truthy(top) /\ command.has_command /\ command.command_action # Absent
                  THEN command.command_action ELSE top
    IN IF ~Truthy(action)
       THEN Start("handle_generic_command", "done", Absent, action, NoHandler, NoResponse,
                  Result(FALSE, Message("missing_operation", "")))
       ELSE IF ~Hashable(action)
       THEN Start("handle_generic_command", "done", Absent, action, NoHandler, NoResponse,
                  Result(FALSE, Message("exception", "")))
       ELSE LET handler == ResolveHandler(action)
            IN IF handler = NoHandler
               THEN Start("handle_generic_command", "done", Absent, action, NoHandler,
                          NoResponse, Result(FALSE, Message("handler_not_found", action)))
               ELSE Start("handle_generic_command", "invoke", Absent, action, handler,
                          NoResponse, NoResult)

\* Lines 1941-1947: the endpoint's response to what handle_generic_command returned.
GenericResponse(data, result) ==
    Response("mcp.response", Get(data.id, Uuid), Status(result), result.message)

\* MCPAdapter.execute_command on MCPCommand.from_dict(command_data), lines 316-331
\* with 67-74 and 51: up to the handler, or the failure dict it returns.
execute_command(command_data) ==
    LET id == Or(command_data.command_inner_id, IsoNow)
        action == Get(command_data.command_action, "")
    IN IF ~Hashable(action)
       THEN Start("execute_command", "done", id, action, NoHandler, NoResponse,
                  Result(FALSE, Message("exception", "")))
       ELSE IF action \in DOMAIN command_handlers
       THEN Start("execute_command", "invoke", id, action, command_handlers[action],
                  NoResponse, NoResult)
       ELSE Start("execute_command", "done", id, action, NoHandler, NoResponse,
                  Result(FALSE, Message("not_registered", action)))

\* MCPMessage.response(command.id, result.get("success", False), result)
AdapterResponse(command_id, result) ==
    Response("response", command_id, Status(result), result.message)

\* MCPAdapter._handle_command_message, lines 385-406; the "command" object of a
\* command message, when there is one, is not empty.
AdapterStart(data) ==
    IF ~data.has_command
    THEN Start("_handle_command_message", "respond", Absent, Absent, NoHandler,
               Response("error", Absent, "error", Message("missing_command_field", "")),
               NoResult)
    ELSE LET s == execute_command(data)
         IN IF s.pc = "invoke" THEN s
            ELSE [s EXCEPT !.pc = "respond",
                           !.response = AdapterResponse(s.command_id, s.returned)]

\* websocket_mcp_endpoint, lines 1724-1733.
McpEndpointStart(data) ==
    IF data.type = "mcp.command"
    THEN handle_command(data)
    ELSE Start("websocket_mcp_endpoint", "respond", Absent, Absent, NoHandler,
               Response("error", Absent, "error", Message("unknown_type", data.type)),
               NoResult)

\* websocket_command_endpoint, lines 1915-1947.
CommandEndpointStart(data) ==
    IF data.type = "mcp.command"
    THEN IF data.action # Absent \/ data.has_command
         THEN handle_command(data)
         ELSE Start("websocket_command_endpoint", "respond", Get(data.id, Uuid), Absent,
                    NoHandler,
                    Response("mcp.response", Get(data.id, Uuid), "error",
                             Message("missing_fields", "")), NoResult)
    ELSE IF data.action # Absent
    THEN handle_command(data)
    ELSE LET s == handle_generic_command(data)
         IN IF s.pc = "invoke" THEN s
            ELSE [s EXCEPT !.pc = "respond", !.response = GenericResponse(data, s.returned)]

\* How a command reaches the dispatch: the /ws/mcp and /ws/command endpoints,
\* the /ws endpoint (it hands the command object of a "command" message to
\* handle_generic_command, line 1516), the adapter's "command" message.
Entries == {"/ws/mcp", "/ws/command", "/ws", "mcp_adapter"}

EntryStart(entry, data) ==
    CASE entry = "/ws/mcp" -> McpEndpointStart(data)
      [] entry = "/ws/command" -> CommandEndpointStart(data)
      [] entry = "/ws" -> handle_generic_command(data)
      [] entry = "mcp_adapter" -> AdapterStart(data)

----------------------------------------------------------------------------
(* Command dispatch: one action per stretch between awaits *)

\* The frame of a dispatch that has run to its first await.
CommandFrame(entry, websocket, client_id, data) ==
    LET s == EntryStart(entry, data)
    IN [op |-> "command", pc |-> s.pc, entry |-> entry, fn |-> s.fn,
        websocket |-> websocket, client_id |-> client_id, data |-> data,
        command_id |-> s.command_id, action |-> s.action,
        handler |-> s.handler, invoked |-> << >>,
        response |-> s.response, returned |-> s.returned,
        outcome |-> NoResult, sent |-> << >>, send_raised |-> FALSE]

\* A JSON object arrives; the dispatch runs to its first await.  Over a
\* WebSocket endpoint it arrives on a registered transport, whose client id
\* get_client_by_websocket finds (line 551).
CommandReceive(t, entry, websocket, data) ==
    /\ Ready(t)
    /\ websocket \in DOMAIN transports
    /\ LET client_id == get_client_by_websocket(active_connections, websocket)
       IN /\ client_id # EmptyStr
          /\ SetCall(t, CommandFrame(entry, websocket, client_id, data))
    /\ UNCHANGED <<active_connections, endpoint_connections, nextWs, transports>>

\* result = await handler(parameters), lines 592-616, 1391-1397 and 324-325,
\* and the response built from the result; for a handler that raises, the
\* response of handle_command's except clause (lines 621-631) or the dict the
\* other two functions return from theirs.
Invoked(f, outcome) ==
    LET g == [f EXCEPT !.invoked = Append(@, f.handler), !.outcome = outcome]
        result == Caught(outcome)
    IN CASE f.fn = "handle_command" ->
              IF outcome = Raised
              THEN [g EXCEPT !.pc = "respond",
                             !.response = Response("mcp.response",
                                                   Get(f.data.id, Uuid), "error",
                                                   Message("exception", ""))]
              ELSE [g EXCEPT !.pc = "respond",
                             !.response = Response("mcp.response", f.command_id,
                                                   Status(result), result.message)]
         [] f.fn = "handle_generic_command" ->
              IF f.entry = "/ws/command"
              THEN [g EXCEPT !.pc = "respond", !.returned = result,
                             !.response = GenericResponse(f.data, result)]
              ELSE [g EXCEPT !.pc = "done", !.returned = result]
         [] f.fn = "execute_command" ->
              [g EXCEPT !.pc = "respond", !.returned = result,
                        !.response = AdapterResponse(f.command_id, result)]

CommandInvoke(t, outcome) ==
    /\ calls[t].op = "command"
    /\ calls[t].pc = "invoke"
    /\ SetCall(t, Invoked(calls[t], outcome))
    /\ UNCHANGED <<active_connections, endpoint_connections, nextWs, transports>>

\* await websocket.send_json(response).  It raises on a closed transport, and
\* then so does the send of the except clause (lines 623-634): nothing is sent.
CommandRespond(t, ok) ==
    /\ calls[t].op = "command"
    /\ calls[t].pc = "respond"
    /\ SetCall(t, [calls[t] EXCEPT !.pc = "done",
                                   !.sent = IF ok THEN Append(@, calls[t].response) ELSE @,
                                   !.send_raised = ~ok])
    /\ UNCHANGED <<active_connections, endpoint_connections, nextWs, transports>>

\* One client connected over the command channel.
InitCmd ==
    LET r == Register(InitActive, InitEndpoints, 1, "command", <<"a">>,
                      ClientIdOf("h1", <<"a">>))
    IN /\ active_connections = r.ac
       /\ endpoint_connections = r.ec
       /\ nextWs = 2
       /\ transports = DictPut(EmptyDict, 1,
                               [endpoint_type |-> "command",
                                client_id |-> ClientIdOf("h1", <<"a">>)])
       /\ calls = [t \in Tasks |-> Idle]

NextCmd ==
    \/ \E entry \in Entries, ws \in DOMAIN transports, data \in CommandData :
          CommandReceive(Main, entry, ws, data)
    \/ \E outcome \in HandlerOutcomes : CommandInvoke(Main, outcome)
    \/ \E ok \in BOOLEAN : CommandRespond(Main, ok)

SpecCmd == InitCmd /\ [][NextCmd]_vars


----------------------------------------------------------------------------
(* Properties of the command dispatch *)

IsCommand(f) == f.op = "command"

\* The identifier the request carried: the top-level id or command_id of a
\* server command, the id of the adapter's command object; Absent when none.
CarriedId(f) ==
    IF f.entry = "mcp_adapter"
    THEN Or(f.data.command_inner_id, Absent)
    ELSE Or(f.data.id, Or(f.data.command_id, Absent))

\* C4: every response sent for a command that carried an identifier has that
\* identifier as its command_id (commandId for the adapter), whichever path
\* of the dispatch produced it.
ResponseCarriesCommandId ==
    IsCommand(Frame) =>
        \A i \in 1..Len(Frame.sent) :
            (Frame.sent[i].type \in {"mcp.response", "response"} /\ CarriedId(Frame) # Absent)
                => Frame.sent[i].command_id = CarriedId(Frame)

\* The three functions C5 names.
Dispatchers == {"handle_command", "handle_generic_command", "execute_command"}

\* The operation names a function can resolve: the registry or an
\* execute_{action}_operation method for the server, the adapter's table.
Resolvable(fn, action) ==
    IF fn = "execute_command"
    THEN action \in {"rotate", "zoom", "focus", "reset"}
    ELSE action \in {"rotate", "zoom", "focus", "reset", "highlight", "execute_js",
                     "batch", "js"}

\* The failure texts that name the missing or the unknown operation.
NamesOperation(message, action) ==
    message \in {Message("missing_operation", ""), Message("handler_not_found", action),
                 Message("not_registered", action)}

\* What a dispatch answers: the response handle_command sends, the dict the
\* other two return.
Rejected(f) ==
    IF f.fn = "handle_command"
    THEN /\ f.response.status = "error"
         /\ Hashable(f.action) => NamesOperation(f.response.message, f.action)
         /\ f.pc = "done" => f.sent \in {<< >>, <<f.response>>}
    ELSE /\ ~f.returned.success
         /\ Hashable(f.action) => NamesOperation(f.returned.message, f.action)

\* The action field of the command as received: that of the nested command
\* object when there is one, the top-level one otherwise.
ActionField(f) == IF f.data.has_command THEN f.data.command_action ELSE f.data.action

Dispatched(f) ==
    /\ IsCommand(f)
    /\ f.entry \in {"/ws/mcp", "/ws/command"}
    /\ (f.fn = "handle_command" \/ f.entry = "/ws/command")

\* No retry: the handler was awaited at most once and at most one response
\* was sent; a returned dispatch whose send did not raise has sent one.
AnsweredOnce(f) ==
    /\ Len(f.invoked) <= 1
    /\ Len(f.sent) <= 1
    /\ (f.pc = "done" /\ ~f.send_raised) => Len(f.sent) = 1

\* The response sent for a command that carried an identifier carries it.
Correlated(f) ==
    \A i \in 1..Len(f.sent) :
       CarriedId(f) # Absent => f.sent[i].command_id = CarriedId(f)

\* C19: a command that reached the dispatcher has its handler invoked at most
\* once and is answered on its connection by exactly one response, which
\* carries the command's identifier, whether the handler returned success,
\* returned a failure or raised.
CommandAnsweredOnceCorrelated ==
    Dispatched(Frame) => AnsweredOnce(Frame) /\ Correlated(Frame)

----------------------------------------------------------------------------
(* MCPServer: the built-in operation handlers rotate, zoom, focus, reset *)

HandlerNames == {"rotate", "zoom", "focus", "reset"}

\* self.browser at the call: None ("none"), or an object whose execute_script
\* returns a dict with success true ("success"), a dict with success false
\* ("failure"), something that is not a dict ("other"), or raises ("raises").
BrowserOutcomes == {"none", "success", "failure", "other", "raises"}

\* The params dict: with the keys the handler requires, or without them.
ParamKinds == {"valid", "missing"}

\* rotate and zoom run the script, focus and reset only broadcast.
UsesBrowser(name) == name \in {"rotate", "zoom"}

\* zoom requires "scale" and focus requires "target"; rotate has defaults and
\* reset reads nothing.
RequiresParams(name) == name \in {"zoom", "focus"}

NoDeliveryResult_AlwaysFalse(name) == FALSE

NoDeliveryResult_AlwaysTrue(name) == TRUE

\* "success" of the dict a handler returns after broadcast_command returned
\* False: rotate and zoom return True, focus and reset return False.
NoDeliveryResult(name) == UsesBrowser(name)

DirectMethods_Missing(outcome) == FALSE

\* Whether the returned dict has data["methods"]: only the return that
\* follows a script result with success true.
DirectMethods(outcome) == outcome = "success"

\* broadcast_command's second broadcast has endpoint_type=None: every channel.
FallbackChannel == EmptyStr

OpReturn(f, success, kind, methods) ==
    [f EXCEPT !.pc = "done", !.result = Result(success, Message(kind, f.name)),
              !.methods = methods]

RECURSIVE Resume(_, _)
\* The handler from the return of the broadcast f.bc to its next await or to
\* its return.  Stage "cm" is the broadcast of lines 699/970 (self.browser is
\* None), stage "fb" is broadcast_command.  A broadcast without targets
\* returns without suspending, so the handler runs on.
Resume(f, ec) ==
    LET r == f.bc.result = TRUE
        Call(stage, endpoint_type) ==
            LET b == BroadcastBegin(ec, endpoint_type, EmptyStr)
                g == [f EXCEPT !.stage = stage, !.bc = b, !.pc = b.pc,
                               !.broadcasts = Append(@, endpoint_type)]
            IN IF b.pc = "done" THEN Resume(g, ec) ELSE g
    IN CASE f.stage = "cm" ->
              IF r THEN OpReturn(f, TRUE, "sent", FALSE)
              ELSE Call("fb", "command")
         [] f.stage = "fb" ->
              IF r THEN OpReturn(f, TRUE, "broadcast", FALSE)
              ELSE IF f.bc.endpoint_type = "command" THEN Call("fb", FallbackChannel)
              ELSE OpReturn(f, NoDeliveryResult(f.name),
                            IF UsesBrowser(f.name) THEN "attempted" ELSE "no_connection",
                            FALSE)

\* The handler from its call to its first await or to its return.
OpBegin(name, params, browser, ec) ==
    LET f == [op |-> "handler", pc |-> "start", name |-> name, params |-> params,
              browser |-> browser, stage |-> "", bc |-> Idle, broadcasts |-> << >>,
              reached |-> {}, deliveries |-> 0, result |-> NoResult,
              methods |-> FALSE]
        Call(stage) ==
            LET b == BroadcastBegin(ec, "command", EmptyStr)
                g == [f EXCEPT !.stage = stage, !.bc = b, !.pc = b.pc,
                               !.broadcasts = Append(@, "command")]
            IN IF b.pc = "done" THEN Resume(g, ec) ELSE g
    IN IF RequiresParams(name) /\ params = "missing"
       THEN OpReturn(f, FALSE, "missing_parameter", FALSE)
       ELSE IF ~UsesBrowser(name) THEN Call("fb")
       ELSE CASE browser = "none" -> Call("cm")
              [] browser = "success" -> OpReturn(f, TRUE, "direct", DirectMethods(browser))
              [] browser = "other" -> OpReturn(f, TRUE, "direct", DirectMethods(browser))
              [] OTHER -> Call("fb")

OpStart(t, name, params, browser) ==
    /\ Ready(t)
    /\ SetCall(t, OpBegin(name, params, browser, endpoint_connections))
    /\ UNCHANGED <<active_connections, endpoint_connections, nextWs, transports>>

\* One send of the broadcast the handler awaits.
OpSend(t, ok) ==
    LET f == calls[t]
    IN /\ f.op = "handler" /\ f.pc = "sweep"
       /\ \E p \in f.bc.todo :
             SetCall(t, [f EXCEPT !.bc = BroadcastSent(f.bc, p, ok),
                                  !.pc = BroadcastSent(f.bc, p, ok).pc,
                                  !.reached = @ \cup {p[2]},
                                  !.deliveries = IF ok THEN @ + 1 ELSE @])
       /\ UNCHANGED <<active_connections, endpoint_connections, nextWs, transports>>

\* The awaited broadcast cleans up and returns, and the handler runs on.
OpResume(t) ==
    LET f == calls[t]
        r == Prune(active_connections, endpoint_connections,
                   f.bc.endpoint_type, f.bc.disconnected_clients)
    IN /\ f.op = "handler" /\ f.pc = "cleanup"
       /\ active_connections' = r.ac
       /\ endpoint_connections' = r.ec
       /\ SetCall(t, Resume([f EXCEPT !.bc = BroadcastReturned(f.bc)], r.ec))
       /\ UNCHANGED <<nextWs, transports>>

\* The connections of the run: any of a command connection and a status
\* connection, registered as connect registers them.
OpsClients ==
    {[websocket |-> 1, endpoint_type |-> "command", session_id |-> <<"a">>,
      client_id |-> ClientIdOf("h1", <<"a">>)],
     [websocket |-> 2, endpoint_type |-> "status", session_id |-> <<"b">>,
      client_id |-> ClientIdOf("h2", <<"b">>)]}

RECURSIVE RegisterAll(_, _, _)
RegisterAll(ac, ec, clients) ==
    IF clients = {} THEN [ac |-> ac, ec |-> ec]
    ELSE LET c == CHOOSE x \in clients : \A y \in clients : x.websocket <= y.websocket
             r == Register(ac, ec, c.websocket, c.endpoint_type, c.session_id, c.client_id)
         IN RegisterAll(r.ac, r.ec, clients \ {c})

InitOps ==
    \E clients \in SUBSET OpsClients :
       LET r == RegisterAll(InitActive, InitEndpoints, clients)
       IN /\ active_connections = r.ac
          /\ endpoint_connections = r.ec
          /\ nextWs = 3
          /\ transports = [w \in {c.websocket : c \in clients} |->
                             LET c == CHOOSE x \in clients : x.websocket = w
                             IN [endpoint_type |-> c.endpoint_type,
                                 client_id |-> c.client_id]]
          /\ calls = [t \in Tasks |-> Idle]

NextOps ==
    \/ \E name \in HandlerNames, params \in ParamKinds, browser \in BrowserOutcomes :
          OpStart(Main, name, params, browser)
    \/ \E ok \in BOOLEAN : OpSend(Main, ok)
    \/ OpResume(Main)

SpecOps == InitOps /\ [][NextOps]_vars


----------------------------------------------------------------------------
(* Properties of the built-in handlers *)

IsHandler(f) == f.op = "handler"

\* The handler got past its parameter check.
ParamsAccepted(f) == ~(RequiresParams(f.name) /\ f.params = "missing")

\* C13: a rotate or zoom call whose script execution returned a dict with
\* success true returns success with data["methods"] in the result, and the
\* call made no broadcast and no send.
DirectSuccessRecordsMethod ==
    LET f == calls[Main]
    IN (/\ IsHandler(f) /\ f.pc = "done"
        /\ UsesBrowser(f.name) /\ f.browser = "success" /\ ParamsAccepted(f)) =>
          /\ f.result.success
          /\ f.methods
          /\ f.broadcasts = << >>
          /\ f.reached = {}

\* A zoom with a scale returned after a successful script execution while a
\* command connection was registered.
DirectSuccessWitness ==
    LET f == calls[Main]
    IN /\ IsHandler(f) /\ f.pc = "done"
       /\ f.name = "zoom" /\ f.params = "valid" /\ f.browser = "success"
       /\ endpoint_connections["command"] # EmptyDict

\* C14: a built-in handler that broadcasts sends the command message only on
\* transports connected under the command channel, and it returns success
\* when at least one send returned.
FallbackStaysOnCommandChannel ==
    LET f == calls[Main]
    IN IsHandler(f) =>
          /\ \A w \in f.reached : transports[w].endpoint_type = "command"
          /\ (f.pc = "done" /\ f.deliveries > 0) => f.result.success

\* Neither path succeeded: the script was not run or did not succeed, and no
\* send of a broadcast returned.
NeitherPath(f) ==
    /\ IsHandler(f) /\ f.pc = "done" /\ ParamsAccepted(f)
    /\ f.browser \in {"none", "failure", "raises"}
    /\ f.deliveries = 0

\* C15 as stated: when neither path succeeded, rotate, zoom, focus and reset
\* all return success true.
NeitherPathStillSucceeds ==
    NeitherPath(calls[Main]) => calls[Main].result.success

\* C15 as amended: when neither path succeeded, rotate and zoom return success
\* true with the message that the operation was attempted.
NeitherPathMotionStillSucceeds ==
    LET f == calls[Main]
    IN (NeitherPath(f) /\ f.name \in {"rotate", "zoom"}) =>
          /\ f.result.success
          /\ f.result.message[1] = "attempted"

\* A rotate returned with no script capability after the broadcast on the
\* command channel and the one on every channel delivered nothing.
NeitherPathWitness ==
    LET f == calls[Main]
    IN /\ NeitherPath(f) /\ f.name = "rotate" /\ f.browser = "none"
       /\ f.broadcasts = <<"command", "command", EmptyStr>>

\* C16: a focus or reset call whose broadcasts delivered nothing returns
\* success false with the error that there is no active connection.
FocusResetFailWithoutDelivery ==
    LET f == calls[Main]
    IN (/\ IsHandler(f) /\ f.pc = "done" /\ ParamsAccepted(f)
        /\ f.name \in {"focus", "reset"} /\ f.deliveries = 0) =>
          /\ ~f.result.success
          /\ f.result.message[1] = "no_connection"

\* A focus with a target returned after both broadcasts delivered nothing.
FocusResetWitness ==
    LET f == calls[Main]
    IN /\ IsHandler(f) /\ f.pc = "done"
       /\ f.name = "focus" /\ f.params = "valid" /\ f.deliveries = 0
       /\ f.broadcasts = <<"command", EmptyStr>>

----------------------------------------------------------------------------
(* MCPServer.execute_batch_operation *)

\* Longest "commands" list of a batch.
MaxBatch == 2

\* The parameter object a sub-command carries, and the default {} of a get.
ParamObject == "<object>"

EmptyObject == "{}"

SubCommand(type, action, operation, params, parameters) ==
    [type |-> type, id |-> Absent, command_id |-> Absent, action |-> action,
     operation |-> operation, has_command |-> FALSE, command_action |-> Absent,
     command_inner_id |-> Absent, params |-> params, parameters |-> parameters]

\* Sub-commands in the batch's own format (operation, params) and one in the
\* dispatcher's format (action, parameters).
BatchCommands ==
    {SubCommand("mcp.command", Absent, o, pr, Absent) :
        o \in {"rotate", "js", "bogus", ListValue}, pr \in {Absent, ParamObject}}
    \cup {SubCommand(Absent, "rotate", Absent, Absent, ParamObject)}

RECURSIVE SeqsUpTo(_, _)
SeqsUpTo(S, n) ==
    IF n = 0 THEN {<< >>}
    ELSE LET shorter == SeqsUpTo(S, n - 1)
         IN shorter \cup {Append(q, x) : q \in shorter, x \in S}

Batches == SeqsUpTo(BatchCommands, MaxBatch)

BatchSuccess_All(results) == \A k \in 1..Len(results) : results[k].success

\* success_count > 0, lines 1314-1317.
BatchSuccess(results) == \E k \in 1..Len(results) : results[k].success

\* results.append with the entry put in front.
RecordResult_InFront(results, result) == <<result>> \o results

\* results.append(...), lines 1308 and 1310.
RecordResult(results, result) == Append(results, result)

RECURSIVE BatchRun(_)
\* The loop of lines 1301-1312 from sub-command f.i to the next awaited
\* handler, or to the return of lines 1314-1322, or to the except clause
\* (lines 1324-1327) when the registry lookup raises on an unhashable key.
BatchRun(f) ==
    IF f.i > Len(f.commands)
    THEN [f EXCEPT !.pc = "done",
                   !.result = Result(BatchSuccess(f.results), Message("batch_done", "")),
                   !.attached = TRUE]
    ELSE LET cmd == f.commands[f.i]
             operation == cmd.operation
             cmd_params == Get(cmd.params, EmptyObject)
         IN IF ~Hashable(operation)
            THEN [f EXCEPT !.pc = "done",
                           !.result = Result(FALSE, Message("exception", "")),
                           !.attached = FALSE]
            ELSE LET handler == get_handler(operation)
                     g == [f EXCEPT !.resolved = Append(@, handler),
                                    !.passed = Append(@, cmd_params)]
                 IN IF handler # NoHandler
                    THEN [g EXCEPT !.pc = "invoke"]
                    ELSE BatchRun([g EXCEPT
                            !.results = RecordResult(@, Result(FALSE,
                                            Message("unknown_operation", operation))),
                            !.i = @ + 1])

\* execute_batch_operation(params) with params["commands"] = commands.
BatchStart(t, commands) ==
    /\ Ready(t)
    /\ LET f == [op |-> "batch", pc |-> "start", commands |-> commands, i |-> 1,
                 results |-> << >>, resolved |-> << >>, passed |-> << >>,
                 result |-> NoResult, attached |-> FALSE]
       IN SetCall(t, IF commands = << >>
                     THEN [f EXCEPT !.pc = "done",
                                    !.result = Result(FALSE, Message("empty_batch", ""))]
                     ELSE BatchRun(f))
    /\ UNCHANGED <<active_connections, endpoint_connections, nextWs, transports>>

\* result = await handler(cmd_params): the built-in handlers catch every
\* exception and return a dict.
BatchInvoke(t, result) ==
    LET f == calls[t]
    IN /\ f.op = "batch" /\ f.pc = "invoke"
       /\ SetCall(t, BatchRun([f EXCEPT !.results = RecordResult(@, result), !.i = @ + 1]))
       /\ UNCHANGED <<active_connections, endpoint_connections, nextWs, transports>>

NextBatch ==
    \/ \E commands \in Batches : BatchStart(Main, commands)
    \/ \E result \in HandlerResults : BatchInvoke(Main, result)

SpecBatch == InitCmd /\ [][NextBatch]_vars

----------------------------------------------------------------------------
(* Properties of the batch *)

IsBatch(f) == f.op = "batch"

BatchLookupsReturn(f) == \A k \in 1..Len(f.commands) : Hashable(f.commands[k].operation)

DispatchParameters(cmd) == Get(cmd.parameters, EmptyObject)

\* C18: each sub-command the batch has looked up resolved to the handler that
\* handle_command resolves for the same object sent alone, and is passed the
\* same parameters.
BatchDispatchesAsAlone ==
    LET f == calls[Main]
    IN IsBatch(f) =>
          \A k \in 1..Len(f.resolved) :
             /\ f.resolved[k] = handle_command(f.commands[k]).handler
             /\ f.passed[k] = DispatchParameters(f.commands[k])

----------------------------------------------------------------------------
(* The receive loops of websocket_command_endpoint and websocket_mcp_endpoint *)

\* Messages a client sends over one connection after connect returned.
MaxMsgs == 2

\* The JSON objects of the loop's run: an mcp.command with an action, one
\* without, and an object typed as an operation.
LoopData ==
    {d \in CommandData : /\ d.id = "i1" /\ d.command_id = Absent /\ ~d.has_command
                         /\ d.operation = Absent /\ d.action \in {Absent, "rotate"}
                         /\ (d.type = "zoom" => d.action = Absent)}

\* The endpoint each task serves, and the transport it serves it on.
EndpointOf(t) == IF t = "t1" THEN "/ws/command" ELSE "/ws/mcp"

TransportOf(t) == IF t = "t1" THEN 1 ELSE 2

NextMessage_Newest(inbox) == inbox[Len(inbox)]

\* await websocket.receive_text(): the oldest message not yet received.
NextMessage(inbox) == Head(inbox)

Without(inbox, m) == SelectSeq(inbox, LAMBDA x : x # m)

\* The client sends its next message; it waits in the transport until the
\* loop receives it.
Arrive(t, data) ==
    LET f == calls[t]
    IN /\ f.op = "endpoint" /\ f.pc # "closed"
       /\ f.arrived < MaxMsgs
       /\ SetCall(t, [f EXCEPT !.arrived = @ + 1,
                               !.inbox = Append(@, [n |-> f.arrived + 1, data |-> data])])
       /\ UNCHANGED <<active_connections, endpoint_connections, nextWs, transports>>

\* Lines 1892-1947 and 1692-1733: receive_text returns a message, and the
\* routing and the dispatch run to their first await.
LoopReceive(t) ==
    LET f == calls[t]
    IN /\ f.op = "endpoint" /\ f.pc = "receive"
       /\ f.inbox # << >>
       /\ LET m == NextMessage(f.inbox)
              client_id == get_client_by_websocket(active_connections, f.websocket)
              cur == CommandFrame(f.entry, f.websocket, client_id, m.data)
          IN /\ client_id # EmptyStr
             /\ SetCall(t, [f EXCEPT !.inbox = Without(@, m), !.n = m.n, !.cur = cur,
                                     !.pc = cur.pc,
                                     !.log = Append(@, <<"start", m.n>>)])
       /\ UNCHANGED <<active_connections, endpoint_connections, nextWs, transports>>

\* The awaited handler returns or raises.
LoopInvoke(t, outcome) ==
    LET f == calls[t]
    IN /\ f.op = "endpoint" /\ f.pc = "invoke"
       /\ SetCall(t, [f EXCEPT !.cur = Invoked(f.cur, outcome),
                               !.pc = Invoked(f.cur, outcome).pc,
                               !.log = Append(@, <<"invoke", f.n>>)])
       /\ UNCHANGED <<active_connections, endpoint_connections, nextWs, transports>>

\* The send of the response returns, and the loop goes back to receive_text.
\* When it raises (the peer has closed) handle_command swallows the exception
\* (lines 621-634) and the loop goes on; for a send of the endpoint itself the
\* error send of the except clause raises as well and the endpoint
\* disconnects (lines 1953-1974, 1741-1753).
LoopRespond(t, ok) ==
    LET f == calls[t]
        goes_on == ok \/ f.cur.fn = "handle_command"
        r == IF goes_on
             THEN [ac |-> active_connections, ec |-> endpoint_connections]
             ELSE disconnect(active_connections, endpoint_connections,
                             f.websocket, f.cur.client_id)
    IN /\ f.op = "endpoint" /\ f.pc = "respond"
       /\ active_connections' = r.ac
       /\ endpoint_connections' = r.ec
       /\ SetCall(t, [f EXCEPT !.pc = IF goes_on THEN "receive" ELSE "closed",
                               !.cur = Idle,
                               !.log = Append(@, <<IF ok THEN "sent" ELSE "failed", f.n>>)])
       /\ UNCHANGED <<nextWs, transports>>

\* receive_text raises WebSocketDisconnect: lines 1950-1953 and 1748-1750.
LoopDisconnect(t) ==
    LET f == calls[t]
        r == disconnect(active_connections, endpoint_connections,
                        f.websocket, f.client_id)
    IN /\ f.op = "endpoint" /\ f.pc = "receive"
       /\ active_connections' = r.ac
       /\ endpoint_connections' = r.ec
       /\ SetCall(t, [f EXCEPT !.pc = "closed"])
       /\ UNCHANGED <<nextWs, transports>>

\* Two clients connected over the command channel, one per endpoint, each
\* served by the task of its endpoint function.
LoopClients ==
    {[websocket |-> 1, endpoint_type |-> "command", session_id |-> <<"a">>,
      client_id |-> ClientIdOf("h1", <<"a">>)],
     [websocket |-> 2, endpoint_type |-> "command", session_id |-> <<"b">>,
      client_id |-> ClientIdOf("h2", <<"b">>)]}

InitLoop ==
    LET r == RegisterAll(InitActive, InitEndpoints, LoopClients)
    IN /\ active_connections = r.ac
       /\ endpoint_connections = r.ec
       /\ nextWs = 3
       /\ transports = [w \in {1, 2} |->
                          LET c == CHOOSE x \in LoopClients : x.websocket = w
                          IN [endpoint_type |-> c.endpoint_type, client_id |-> c.client_id]]
       /\ calls = [t \in Tasks |->
                     [op |-> "endpoint", pc |-> "receive", entry |-> EndpointOf(t),
                      websocket |-> TransportOf(t),
                      client_id |-> transports[TransportOf(t)].client_id,
                      inbox |-> << >>, arrived |-> 0, n |-> 0, cur |-> Idle,
                      log |-> << >>]]

NextLoop ==
    \E t \in Tasks :
       \/ \E data \in LoopData : Arrive(t, data)
       \/ LoopReceive(t)
       \/ \E outcome \in HandlerOutcomes : LoopInvoke(t, outcome)
       \/ \E ok \in BOOLEAN : LoopRespond(t, ok)
       \/ LoopDisconnect(t)

SpecLoop == InitLoop /\ [][NextLoop]_vars

----------------------------------------------------------------------------
(* Properties of the receive loops *)

\* Log events: a processing starts, and the send of its response completes.
Started(log, j) == log[j][1] = "start"

Ended(e) == e[1] \in {"sent", "failed"}

\* C20: on each connection the messages are taken in arrival order (the
\* j-th processing started is that of the j-th message that arrived), the
\* processing of a message starts only right after the send of the previous
\* message's response has completed, and every handler invocation and send
\* belongs to the message whose processing started last.
InOrderOneAtATime ==
    \A t \in Tasks :
       LET log == calls[t].log
       IN \A j \in 1..Len(log) :
             IF Started(log, j)
             THEN /\ log[j][2] = 1 + Cardinality({i \in 1..(j - 1) : Started(log, i)})
                  /\ j > 1 => (Ended(log[j - 1]) /\ log[j - 1][2] = log[j][2] - 1)
             ELSE /\ j > 1
                  /\ log[j - 1][2] = log[j][2]
                  /\ ~Ended(log[j - 1])

\* On the command endpoint the second message was taken while nothing else
\* waited, after the first was answered through a handler, and it is being
\* processed.
InOrderWitness ==
    LET f == calls["t1"]
    IN /\ Len(f.log) >= 4
       /\ f.log[1] = <<"start", 1>> /\ f.log[2] = <<"invoke", 1>>
       /\ f.log[3] = <<"sent", 1>> /\ f.log[4] = <<"start", 2>>
       /\ f.arrived = 2

----------------------------------------------------------------------------
(* The two request forms of the command channel *)

\* A request: its id, its action and its parameters object, if any.
FormRequests ==
    {[id |-> "i1", action |-> a, parameters |-> p] :
        a \in {"rotate", "js", "bogus", ""}, p \in {Absent, ParamObject}}

\* {"type": "command", "id", "action", "parameters"}
FlatForm(r) ==
    [type |-> "command", id |-> r.id, command_id |-> Absent, action |-> r.action,
     operation |-> Absent, has_command |-> FALSE, command_action |-> Absent,
     command_inner_id |-> Absent, parameters |-> r.parameters,
     command_parameters |-> Absent]

\* {"type": "mcp.command", "id", "command": {"action", "parameters"}}
NestedForm(r) ==
    [type |-> "mcp.command", id |-> r.id, command_id |-> Absent, action |-> Absent,
     operation |-> Absent, has_command |-> TRUE, command_action |-> r.action,
     command_inner_id |-> Absent, parameters |-> Absent,
     command_parameters |-> r.parameters]

\* handle_command's parameters, lines 516-526.
HandlerParameters(data) ==
    IF data.has_command THEN Get(data.command_parameters, EmptyObject)
    ELSE Get(data.parameters, EmptyObject)

\* The endpoints that register their connection on the command channel.
CommandChannelEntries == {"/ws/command", "/ws/mcp"}

\* The message a task has been sent and not yet received.
Pending(entry, data) == [op |-> "pending", pc |-> "done", entry |-> entry, data |-> data]

\* receive_text returns the pending message; the dispatch runs to its first await.
FormReceive(t) ==
    LET f == calls[t]
        client_id == get_client_by_websocket(active_connections, TransportOf(t))
    IN /\ f.op = "pending"
       /\ client_id # EmptyStr
       /\ SetCall(t, CommandFrame(f.entry, TransportOf(t), client_id, f.data))
       /\ UNCHANGED <<active_connections, endpoint_connections, nextWs, transports>>

\* Two clients on one command-channel endpoint: the first is sent a request
\* in the flat form, the second the same request in the nested form.
InitForms ==
    LET r == RegisterAll(InitActive, InitEndpoints, LoopClients)
    IN /\ active_connections = r.ac
       /\ endpoint_connections = r.ec
       /\ nextWs = 3
       /\ transports = [w \in {1, 2} |->
                          LET c == CHOOSE x \in LoopClients : x.websocket = w
                          IN [endpoint_type |-> c.endpoint_type, client_id |-> c.client_id]]
       /\ \E entry \in CommandChannelEntries, req \in FormRequests :
             calls = [t \in Tasks |->
                        Pending(entry, IF t = "t1" THEN FlatForm(req) ELSE NestedForm(req))]

NextForms ==
    \E t \in Tasks :
       \/ FormReceive(t)
       \/ \E outcome \in HandlerOutcomes : CommandInvoke(t, outcome)
       \/ \E ok \in BOOLEAN : CommandRespond(t, ok)

SpecForms == InitForms /\ [][NextForms]_vars

\* Both dispatches have returned after their response was sent, and their
\* handlers, where both were awaited, had the same outcome.
BothAnswered(f, g) ==
    /\ IsCommand(f) /\ IsCommand(g)
    /\ f.pc = "done" /\ g.pc = "done"
    /\ ~f.send_raised /\ ~g.send_raised
    /\ (f.invoked = << >> \/ g.invoked = << >> \/ f.outcome = g.outcome)

\* C21: on an endpoint of the command channel, the flat and the nested form
\* of one request have the same handler invoked with the same parameters and
\* are each answered by one mcp.response with the same command_id and status.
FormsAgree ==
    LET f == calls["t1"]
        g == calls["t2"]
    IN BothAnswered(f, g) =>
          /\ f.invoked = g.invoked
          /\ HandlerParameters(f.data) = HandlerParameters(g.data)
          /\ Len(f.sent) = 1 /\ Len(g.sent) = 1
          /\ f.sent[1].type = "mcp.response" /\ g.sent[1].type = "mcp.response"
          /\ f.sent[1].command_id = g.sent[1].command_id
          /\ f.sent[1].status = g.sent[1].status

----------------------------------------------------------------------------
(* What each endpoint answers to a message that is no well-formed command *)

\* The endpoint functions of mcp_server.main, and MCPAdapter.process_message.
Endpoints == {"/ws", "/ws/status", "/ws/health", "/ws/command", "/ws/mcp", "mcp_adapter"}

\* An inbound text: not JSON ("malformed"), a ping or a heartbeat object with
\* or without a token in its "timestamp" field, a command naming an
\* operation nobody registered.
InboundMessages ==
    {[kind |-> k, token |-> tk] :
        k \in {"malformed", "ping", "heartbeat", "unknown_operation"},
        tk \in {Absent, "tok"}}

\* What is sent back: its "type", whether it tells an error (type "error",
\* status "error" or success false), and the token it echoes.
Reply(type, error, echo) == [type |-> type, error |-> error, echo |-> echo]

NoReply == Reply("", FALSE, Absent)

\* The command object naming the unregistered operation "bogus".
UnknownOperation(id) ==
    [type |-> "mcp.command", id |-> id, command_id |-> Absent, action |-> "bogus",
     operation |-> Absent, has_command |-> TRUE, command_action |-> "bogus",
     command_inner_id |-> id]

\* The JSON object of a ping or a heartbeat, as the dispatch reads it.
Typed(type) ==
    [type |-> type, id |-> Absent, command_id |-> Absent, action |-> Absent,
     operation |-> Absent, has_command |-> FALSE, command_action |-> Absent,
     command_inner_id |-> Absent]

\* The answer of a dispatch that ends without awaiting a handler.
DispatchReply(s) ==
    IF s.pc = "respond" THEN Reply(s.response.type, s.response.status = "error", Absent)
    ELSE Reply("command_result", ~s.returned.success, Absent)

\* websocket_endpoint, lines 1500-1542.
GeneralReply(msg) ==
    CASE msg.kind = "malformed" -> Reply("error", TRUE, Absent)
      [] msg.kind = "ping" -> Reply("pong", FALSE, Absent)
      [] msg.kind = "heartbeat" -> Reply("error", TRUE, Absent)
      [] msg.kind = "unknown_operation" ->
            DispatchReply(handle_generic_command(UnknownOperation(msg.token)))

\* websocket_status_endpoint, lines 1588-1627: only heartbeat and
\* status.request are answered; a text that is not JSON is logged.
StatusReply(msg) ==
    IF msg.kind = "heartbeat" THEN Reply("heartbeat_response", FALSE, Absent) ELSE NoReply

\* websocket_health_endpoint, lines 1658-1676: only health.check is answered.
HealthReply(msg) == NoReply

\* websocket_command_endpoint, lines 1890-1958: a text that is not JSON is
\* sent back as it came, by send_message.
CommandChannelReply(msg) ==
    CASE msg.kind = "malformed" -> Reply("<text>", FALSE, Absent)
      [] msg.kind = "heartbeat" -> Reply("heartbeat_response", FALSE, Absent)
      [] msg.kind = "ping" -> DispatchReply(CommandEndpointStart(Typed("ping")))
      [] msg.kind = "unknown_operation" ->
            DispatchReply(CommandEndpointStart(UnknownOperation(msg.token)))

\* websocket_mcp_endpoint, lines 1692-1747.
McpReply(msg) ==
    CASE msg.kind = "malformed" -> Reply("error", TRUE, Absent)
      [] msg.kind = "heartbeat" -> DispatchReply(McpEndpointStart(Typed("heartbeat")))
      [] msg.kind = "ping" -> DispatchReply(McpEndpointStart(Typed("ping")))
      [] msg.kind = "unknown_operation" ->
            DispatchReply(McpEndpointStart(UnknownOperation(msg.token)))

\* MCPAdapter.process_message, lines 292-314, with _handle_ping (lines
\* 358-366) and _handle_command_message.
AdapterReply(msg) ==
    CASE msg.kind = "malformed" -> Reply("error", TRUE, Absent)
      [] msg.kind = "heartbeat" -> Reply("error", TRUE, Absent)
      [] msg.kind = "ping" -> Reply("pong", FALSE, msg.token)
      [] msg.kind = "unknown_operation" ->
            DispatchReply(AdapterStart(UnknownOperation(msg.token)))

EndpointReply(endpoint, msg) ==
    CASE endpoint = "/ws" -> GeneralReply(msg)
      [] endpoint = "/ws/status" -> StatusReply(msg)
      [] endpoint = "/ws/health" -> HealthReply(msg)
      [] endpoint = "/ws/command" -> CommandChannelReply(msg)
      [] endpoint = "/ws/mcp" -> McpReply(msg)
      [] endpoint = "mcp_adapter" -> AdapterReply(msg)

\* The loop of an endpoint receives msg and runs to the send of its answer,
\* or back to receive_text when it answers nothing.
MessageReceive(t, endpoint, msg) ==
    /\ Ready(t)
    /\ LET reply == EndpointReply(endpoint, msg)
       IN SetCall(t, [op |-> "message", pc |-> IF reply = NoReply THEN "done" ELSE "respond",
                      endpoint |-> endpoint, msg |-> msg, reply |-> reply,
                      sent |-> << >>, send_raised |-> FALSE])
    /\ UNCHANGED <<active_connections, endpoint_connections, nextWs, transports>>

\* The send of the answer returns or raises.
MessageRespond(t, ok) ==
    LET f == calls[t]
    IN /\ f.op = "message" /\ f.pc = "respond"
       /\ SetCall(t, [f EXCEPT !.pc = "done",
                               !.sent = IF ok THEN Append(@, f.reply) ELSE @,
                               !.send_raised = ~ok])
       /\ UNCHANGED <<active_connections, endpoint_connections, nextWs, transports>>

NextMessages ==
    \/ \E endpoint \in Endpoints, msg \in InboundMessages :
          MessageReceive(Main, endpoint, msg)
    \/ \E ok \in BOOLEAN : MessageRespond(Main, ok)

SpecMessages == InitCmd /\ [][NextMessages]_vars

IsMessage(f) == f.op = "message"

\* The endpoint is through with the message and no send of its raised.
Handled(f) == IsMessage(f) /\ f.pc = "done" /\ ~f.send_raised

\* C22: a message that is not decodable, or that names an unknown operation,
\* is answered on every endpoint with one message telling an error.
UndecodableOrUnknownGetsError ==
    (Handled(Frame) /\ Frame.msg.kind \in {"malformed", "unknown_operation"}) =>
        /\ Len(Frame.sent) = 1
        /\ Frame.sent[1].error

\* The endpoints of the four channels.
ChannelEndpoints == {"/ws", "/ws/status", "/ws/health", "/ws/command", "/ws/mcp"}

\* C23: on the endpoint of every channel a ping is answered with one
\* message of type pong that echoes the token of the ping.
PingGetsPong ==
    (Handled(Frame) /\ Frame.msg.kind = "ping" /\ Frame.endpoint \in ChannelEndpoints) =>
        /\ Len(Frame.sent) = 1
        /\ Frame.sent[1].type = "pong"
        /\ Frame.sent[1].echo = Frame.msg.token

----------------------------------------------------------------------------
(* ConnectionManager.connect with the bounded wait as a step of its own *)

\* The headers one handshake can carry: the cookie's digital_twin_session_id
\* value ("" when absent) and the user-agent ("" when absent).
HandshakeCookies == {EmptyStr} \cup CookieTokens

HandshakeAgents == {""} \cup UserAgents

\* Lines 174-189: accept, read the headers, parse the cookie; the call is now
\* at the wait_for of line 192.
ConnectOpen(t, host, endpoint_type, cookieSid, ua) ==
    /\ Ready(t)
    /\ nextWs <= MaxWs
    /\ SetCall(t, [op |-> "connect", pc |-> "wait", websocket |-> nextWs,
                   host |-> host, endpoint_type |-> endpoint_type,
                   cookie |-> cookieSid, user_agent |-> ua])
    /\ UNCHANGED <<active_connections, endpoint_connections, nextWs, transports>>

\* connect with no timeout on the receive of line 192: the wait ends only when
\* the client sends or the receive raises.
ConnectWait_Unbounded(t, w, confirmOk) ==
    LET f == calls[t]
    IN /\ f.op = "connect" /\ f.pc = "wait"
       /\ w.kind # "timeout"
       /\ ConnectDerive(t, f.host, f.endpoint_type, f.cookie, w, confirmOk, f.user_agent)

\* Lines 191-222: the wait of line 192 ends with outcome w.
ConnectWait(t, w, confirmOk) ==
    LET f == calls[t]
    IN /\ f.op = "connect" /\ f.pc = "wait"
       /\ ConnectDerive(t, f.host, f.endpoint_type, f.cookie, w, confirmOk, f.user_agent)

\* timeout=0.5 of line 192: the timer of the event loop ends the wait when the
\* client has sent nothing.
ConnectTimeout(t) == ConnectWait(t, NoMessage, TRUE)

NextConnect ==
    \/ \E host \in Hosts, ep \in ConnectChannels, c \in HandshakeCookies,
          ua \in HandshakeAgents : ConnectOpen(Main, host, ep, c, ua)
    \/ \E w \in WaitOutcomes : \E ok \in (IF w.has THEN BOOLEAN ELSE {TRUE}) :
          ConnectWait(Main, w, ok)
    \/ ConnectScan(Main)
    \/ \E ok \in BOOLEAN : ConnectNotice(Main, ok)
    \/ ConnectClose(Main)

SpecConnect == Init /\ [][NextConnect]_vars

\* The timer fires, and every send_json and close that connect awaits returns
\* or raises: the event loop resumes the coroutine after each await.
FairConnect ==
    /\ SpecConnect
    /\ WF_vars(ConnectTimeout(Main))
    /\ WF_vars(ConnectScan(Main))
    /\ WF_vars(\E ok \in BOOLEAN : ConnectNotice(Main, ok))
    /\ WF_vars(ConnectClose(Main))

\* The first available of: the explicit token of a received first message, the
\* cookie token, the hash of the user-agent, a random token.
FirstAvailable(f) ==
    IF f.first.kind = "message" /\ f.first.has /\ f.first.sessionId # EmptyStr
    THEN f.first.sessionId
    ELSE IF f.cookie # EmptyStr THEN f.cookie
    ELSE IF f.user_agent # "" THEN Md5Hex8(f.user_agent)
    ELSE RandomToken(f.websocket)

Derived(f) == f.op = "connect" /\ f.pc # "wait"

\* C24: whatever the outcome of the bounded wait, the session token connect
\* chooses is the first available of explicit token, cookie token, user-agent
\* hash, random token; a cookie token is used whenever no explicit token arrived.
SessionByPriority ==
    \A t \in Tasks : Derived(calls[t]) => calls[t].session_id = FirstAvailable(calls[t])

RegisteredAs(f) ==
    /\ f.client_id \in DOMAIN active_connections
    /\ active_connections[f.client_id].websocket = f.websocket
    /\ f.endpoint_type \in DOMAIN endpoint_connections
    /\ f.client_id \in DOMAIN endpoint_connections[f.endpoint_type]
    /\ endpoint_connections[f.endpoint_type][f.client_id] = f.websocket

Returned(f, ws) == f.op = "connect" /\ f.pc = "done" /\ f.websocket = ws

\* C25: every connect call that reached the bounded wait eventually returns a
\* client id with the connection registered under it, also when the client
\* never sends a first message.
ConnectCompletes ==
    \A ws \in WsIds :
        (calls[Main].op = "connect" /\ calls[Main].pc = "wait" /\ calls[Main].websocket = ws)
            ~> (Returned(calls[Main], ws) /\ RegisteredAs(calls[Main]))

ConnectCompletesWitness ==
    /\ Returned(calls[Main], calls[Main].websocket)
    /\ calls[Main].first.kind = "timeout"
    /\ calls[Main].session_id = RandomToken(calls[Main].websocket)
    /\ RegisteredAs(calls[Main])

\* The client ids of the connections the call set out to replace.
Superseded(f) == {f.events[i][2] : i \in {j \in 1..Len(f.events) : f.events[j][1] = "notice"}}

\* The notice to old connection id raised: line 243 follows with no close.
NoticeFailed(f, id) ==
    \E i \in 1..(Len(f.events) - 1) :
        /\ f.events[i] = <<"notice", id>>
        /\ f.events[i + 1] = <<"remove", id>>

\* C26: when connect returns, every connection it set out to replace is out of
\* the registry, whether or not the notice and the close went through, and the
\* replacement is registered under the returned client id.
SupersedeIsBestEffort ==
    \A t \in Tasks :
        LET f == calls[t]
        IN f.op = "connect" /\ f.pc = "done" =>
              /\ \A id \in Superseded(f) :
                    /\ id \notin DOMAIN active_connections
                    /\ id \notin DOMAIN endpoint_connections[f.endpoint_type]
              /\ RegisteredAs(f)

SupersedeFailedWitness ==
    /\ calls[Main].op = "connect" /\ calls[Main].pc = "done"
    /\ \E id \in Superseded(calls[Main]) : NoticeFailed(calls[Main], id)
    /\ RegisteredAs(calls[Main])

----------------------------------------------------------------------------
(* Handler registration: OperationHandler, MCPServer, MCPAdapter *)

\* Operation names a caller registers or resolves, and the callables it passes.
TableNames == {"rotate", "spin"}

NewHandlers == {"handler_a", "handler_b"}

Lookup(table, name) == IF name \in DOMAIN table THEN table[name] ELSE NoHandler

NoCall == [fn |-> "", name |-> "", handler |-> NoHandler, raised |-> FALSE,
           result |-> NoHandler]

\* operations: OperationHandler.operations of MCPServer.operation_handlers;
\* handlers: MCPAdapter.command_handlers; asked_operations and asked_handlers:
\* the handler last passed to a register method of the server and of the
\* adapter for each name; call: the call that returned or raised last.
RegistryFrame(operations, handlers, asked_operations, asked_handlers, call) ==
    [op |-> "registry", pc |-> "done", operations |-> operations, handlers |-> handlers,
     asked_operations |-> asked_operations, asked_handlers |-> asked_handlers,
     call |-> call]

\* OperationHandler.register_operation: self.operations[operation_type] = handler
register_operation(t, name, handler) ==
    LET f == calls[t]
    IN /\ f.op = "registry"
       /\ SetCall(t, RegistryFrame(DictPut(f.operations, name, handler), f.handlers,
                                   DictPut(f.asked_operations, name, handler),
                                   f.asked_handlers,
                                   [NoCall EXCEPT !.fn = "register_operation",
                                                  !.name = name, !.handler = handler]))
       /\ UNCHANGED <<active_connections, endpoint_connections, nextWs, transports>>

\* MCPServer.register_operation_handler: self.operation_handlers[operation] =
\* handler, an item assignment on an OperationHandler object, which defines no
\* __setitem__: TypeError, nothing stored.
register_operation_handler(t, name, handler) ==
    LET f == calls[t]
    IN /\ f.op = "registry"
       /\ SetCall(t, RegistryFrame(f.operations, f.handlers,
                                   DictPut(f.asked_operations, name, handler),
                                   f.asked_handlers,
                                   [NoCall EXCEPT !.fn = "register_operation_handler",
                                                  !.name = name, !.handler = handler,
                                                  !.raised = TRUE]))
       /\ UNCHANGED <<active_connections, endpoint_connections, nextWs, transports>>

\* MCPAdapter.register_command_handler: self.command_handlers[action_type] = handler
register_command_handler(t, name, handler) ==
    LET f == calls[t]
    IN /\ f.op = "registry"
       /\ SetCall(t, RegistryFrame(f.operations, DictPut(f.handlers, name, handler),
                                   f.asked_operations,
                                   DictPut(f.asked_handlers, name, handler),
                                   [NoCall EXCEPT !.fn = "register_command_handler",
                                                  !.name = name, !.handler = handler]))
       /\ UNCHANGED <<active_connections, endpoint_connections, nextWs, transports>>

\* OperationHandler.get_handler on the table as it is now.
GetHandler(t, name) ==
    LET f == calls[t]
    IN /\ f.op = "registry"
       /\ SetCall(t, [f EXCEPT !.call = [NoCall EXCEPT !.fn = "get_handler", !.name = name,
                                             !.result = Lookup(f.operations, name)]])
       /\ UNCHANGED <<active_connections, endpoint_connections, nextWs, transports>>

\* self.command_handlers.get(command.action), line 322 of execute_command.
GetCommandHandler(t, name) ==
    LET f == calls[t]
    IN /\ f.op = "registry"
       /\ SetCall(t, [f EXCEPT !.call = [NoCall EXCEPT !.fn = "command_handlers.get",
                                             !.name = name,
                                             !.result = Lookup(f.handlers, name)]])
       /\ UNCHANGED <<active_connections, endpoint_connections, nextWs, transports>>

\* MCPServer.__init__ and MCPAdapter.__init__ have run.
InitRegistry ==
    /\ active_connections = InitActive
    /\ endpoint_connections = InitEndpoints
    /\ nextWs = 1
    /\ transports = EmptyDict
    /\ calls = [t \in Tasks |->
                  IF t = Main
                  THEN RegistryFrame(operation_handlers, command_handlers,
                                     operation_handlers, command_handlers, NoCall)
                  ELSE Idle]

NextRegistry ==
    \/ \E n \in TableNames, h \in NewHandlers : register_operation(Main, n, h)
    \/ \E n \in TableNames, h \in NewHandlers : register_operation_handler(Main, n, h)
    \/ \E n \in TableNames, h \in NewHandlers : register_command_handler(Main, n, h)
    \/ \E n \in TableNames : GetHandler(Main, n)
    \/ \E n \in TableNames : GetCommandHandler(Main, n)

SpecRegistry == InitRegistry /\ [][NextRegistry]_vars

RegisterMethods ==
    {"register_operation", "register_operation_handler", "register_command_handler"}

\* C27: no register call fails, and a resolve returns the handler last passed
\* to a register method for that name, or nothing for a name never registered;
\* for OperationHandler, MCPServer and MCPAdapter alike.
RegisterNeverFailsLastWins ==
    LET f == calls[Main]
    IN f.op = "registry" =>
          /\ f.call.fn \in RegisterMethods => ~f.call.raised
          /\ f.call.fn = "get_handler" =>
                f.call.result = Lookup(f.asked_operations, f.call.name)
          /\ f.call.fn = "command_handlers.get" =>
                f.call.result = Lookup(f.asked_handlers, f.call.name)

----------------------------------------------------------------------------
(* Natural-language translation: parse_natural_language,                   *)
(* generate_mcp_command_from_nl, extract_model_operation_from_text         *)

\* A text is a run of words with nothing between them.  Words written in
\* pinyin stand for the Chinese keywords of the source: xuanzhuan (rotate),
\* zuo (left), you (right), fangda (magnify), suoxiao (shrink), jujiao (focus),
\* chongzhi (reset), shang (up); "2bei" is the number 2 followed by the
\* multiplier unit, "90du" the number 90 followed by the degree unit.  No word
\* holds an area reference, and no keyword of the source straddles two words.
MaxWords == 2

Vocabulary ==
    {"xuanzhuan", "ROTATE", "zuo", "you", "fangda", "suoxiao", "shrink", "zoom",
     "2bei", "jujiao", "chongzhi", "asdkjasd", "shang", "90du"}

Texts == SeqsUpTo(Vocabulary, MaxWords)

\* str.lower() on one word, and on a text.
LowerWord(w) == IF w = "ROTATE" THEN "rotate" ELSE w

Lower(text) == [i \in 1..Len(text) |-> LowerWord(text[i])]

\* any(keyword in message for keyword in words)
Has(message, words) == \E i \in 1..Len(message) : message[i] \in words

\* A scale n/d.
Scale(n, d) == <<n, d>>

Inverse(scale) == <<scale[2], scale[1]>>

Above1(scale) == scale[1] > scale[2]

Below1(scale) == scale[1] < scale[2]

NoLiteral == Scale(0, 0)

NoneValue == [none |-> TRUE]

IsNone(r) == DOMAIN r = {"none"}

Rules == <<"rotate", "zoom", "focus", "reset">>

\* The words of the vocabulary that hold a keyword of each rule, per function.
RuleWords(fn, rule) ==
    CASE fn = "parse_natural_language" ->
            (CASE rule = "rotate" -> {"xuanzhuan", "rotate"}
               [] rule = "zoom" -> {"fangda", "suoxiao", "zoom", "shrink"}
               [] rule = "focus" -> {"jujiao"}
               [] rule = "reset" -> {"chongzhi"})
      [] fn = "generate_mcp_command_from_nl" ->
            (CASE rule = "rotate" -> {"xuanzhuan", "rotate"}
               [] rule = "zoom" -> {"fangda", "suoxiao", "zoom"}
               [] rule = "focus" -> {"jujiao"}
               [] rule = "reset" -> {"chongzhi"})
      [] fn = "extract_model_operation_from_text" ->
            (CASE rule = "rotate" -> {"zuo", "you", "xuanzhuan"}
               [] rule = "zoom" -> {"fangda", "suoxiao"}
               [] rule = "focus" -> {"jujiao"}
               [] rule = "reset" -> {"chongzhi"})

\* The words that hold a shrink keyword, per function.
ShrinkWords(fn) ==
    IF fn = "parse_natural_language" THEN {"suoxiao", "shrink"} ELSE {"suoxiao"}

\* parse_natural_language.py lines 50-52: the first number followed by a
\* multiplier unit.
ParseLiteral(message) == IF Has(message, {"2bei"}) THEN Scale(2, 1) ELSE NoLiteral

\* What the branch of one rule returns, parse_natural_language.py lines 23-92.
ParseRule(message, rule) ==
    CASE rule = "rotate" ->
            [operation |-> "rotate",
             parameters |->
                [direction |-> IF Has(message, {"zuo"}) THEN "left"
                               ELSE IF Has(message, {"you"}) THEN "right"
                               ELSE IF Has(message, {"shang"}) THEN "up"
                               ELSE "left",
                 angle |-> IF Has(message, {"90du"}) THEN 90 ELSE 30]]
      [] rule = "zoom" ->
            [operation |-> "zoom",
             parameters |->
                [scale |-> IF ParseLiteral(message) # NoLiteral THEN ParseLiteral(message)
                           ELSE IF Has(message, {"fangda"}) THEN Scale(2, 1)
                           ELSE IF Has(message, {"suoxiao", "shrink"}) THEN Scale(1, 2)
                           ELSE Scale(3, 2)]]
      [] rule = "focus" -> [operation |-> "focus", parameters |-> [target |-> "center"]]
      [] rule = "reset" -> [operation |-> "reset", parameters |-> EmptyDict]

\* parse_natural_language with the reset branch tested first.
parse_natural_language_ResetFirst(text) ==
    LET message == Lower(text)
    IN IF Has(message, {"chongzhi"}) THEN ParseRule(message, "reset")
       ELSE IF Has(message, {"xuanzhuan", "rotate"}) THEN ParseRule(message, "rotate")
       ELSE IF Has(message, {"fangda", "suoxiao", "zoom", "shrink"})
       THEN ParseRule(message, "zoom")
       ELSE IF Has(message, {"jujiao"}) THEN ParseRule(message, "focus")
       ELSE [operation |-> "", parameters |-> EmptyDict]

\* parse_natural_language.py lines 13-96.
parse_natural_language(text) ==
    LET message == Lower(text)
    IN IF Has(message, {"xuanzhuan", "rotate"}) THEN ParseRule(message, "rotate")
       ELSE IF Has(message, {"fangda", "suoxiao", "zoom", "shrink"})
       THEN ParseRule(message, "zoom")
       ELSE IF Has(message, {"jujiao"}) THEN ParseRule(message, "focus")
       ELSE IF Has(message, {"chongzhi"}) THEN ParseRule(message, "reset")
       ELSE [operation |-> "", parameters |-> EmptyDict]

\* The number a word starts with; 0 for a word that starts with none.
NumberOf(w) == IF w = "2bei" THEN 2 ELSE IF w = "90du" THEN 90 ELSE 0

\* re.search(r'(\d+(?:\.\d+)?)', message): the leftmost number; 0 for none.
FirstNumber(message) ==
    IF \E i \in 1..Len(message) : NumberOf(message[i]) # 0
    THEN NumberOf(message[CHOOSE i \in 1..Len(message) :
                             /\ NumberOf(message[i]) # 0
                             /\ \A j \in 1..(i - 1) : NumberOf(message[j]) = 0])
    ELSE 0

\* mcp_adapter.py lines 546-597; the result is an MCPCommand or None.
generate_mcp_command_from_nl(text) ==
    LET message == Lower(text)
    IN IF Has(message, {"xuanzhuan", "rotate"})
       THEN [operation |-> "rotate",
             parameters |-> [direction |-> IF Has(message, {"zuo"}) THEN "left" ELSE "right",
                             angle |-> IF Has(message, {"90du"}) THEN 90 ELSE 45],
             target |-> Absent]
       ELSE IF Has(message, {"fangda", "suoxiao", "zoom"})
       THEN [operation |-> "zoom",
             parameters |->
                [scale |-> IF Has(message, {"fangda"}) THEN Scale(3, 2)
                           ELSE IF Has(message, {"suoxiao"}) THEN Scale(3, 4)
                           ELSE IF FirstNumber(message) # 0
                           THEN Scale(FirstNumber(message), 1)
                           ELSE Scale(3, 2)],
             target |-> Absent]
       ELSE IF Has(message, {"jujiao"})
       THEN [operation |-> "focus", parameters |-> EmptyDict, target |-> "center"]
       ELSE IF Has(message, {"chongzhi"})
       THEN [operation |-> "reset", parameters |-> EmptyDict, target |-> Absent]
       ELSE NoneValue

\* PATTERN_ROTATE.search: the leftmost direction word; 0 when there is none.
RotateMatch(message) ==
    IF Has(message, {"zuo", "you"})
    THEN CHOOSE i \in 1..Len(message) :
            /\ message[i] \in {"zuo", "you"}
            /\ \A j \in 1..(i - 1) : message[j] \notin {"zuo", "you"}
    ELSE 0

\* Group 2 of PATTERN_ROTATE: the digits right after the direction word, or
\* after the rotate word that follows it; 45 when the group is empty.
RotateAngle(message, i) ==
    IF i = 0 THEN 45
    ELSE IF i < Len(message) /\ NumberOf(message[i + 1]) # 0 THEN NumberOf(message[i + 1])
    ELSE IF /\ i + 1 < Len(message) /\ message[i + 1] = "xuanzhuan"
            /\ NumberOf(message[i + 2]) # 0
         THEN NumberOf(message[i + 2])
    ELSE 45

\* PATTERN_ZOOM.search: a magnify or shrink word with a number right after it.
DifyLiteral(message) ==
    LET hits == {i \in 1..(Len(message) - 1) :
                    message[i] \in {"fangda", "suoxiao"} /\ NumberOf(message[i + 1]) # 0}
    IN IF hits = {} THEN NoLiteral
       ELSE Scale(NumberOf(message[(CHOOSE i \in hits : \A j \in hits : i <= j) + 1]), 1)

\* PATTERN_FOCUS.search: the leftmost focus word with a word character after
\* it; 0 when there is none.
FocusMatch(message) ==
    IF \E i \in 1..(Len(message) - 1) : message[i] = "jujiao"
    THEN CHOOSE i \in 1..(Len(message) - 1) :
            /\ message[i] = "jujiao"
            /\ \A j \in 1..(i - 1) : message[j] # "jujiao"
    ELSE 0

\* dify_processor.py lines 159-238; the result is a dict or None.
extract_model_operation_from_text(text) ==
    LET message == Lower(text)
        r == RotateMatch(message)
        z == DifyLiteral(message)
        scale == IF z # NoLiteral THEN z ELSE Scale(3, 2)
        f == FocusMatch(message)
    IN IF text = << >> THEN NoneValue
       ELSE IF Has(message, {"chongzhi"}) THEN [operation |-> "reset"]
       ELSE IF r # 0 \/ Has(message, {"xuanzhuan"})
       THEN [operation |-> "rotate",
             parameters |->
                [direction |-> IF r # 0 /\ message[r] = "you" THEN "right" ELSE "left",
                 angle |-> RotateAngle(message, r)]]
       ELSE IF Has(message, {"fangda", "suoxiao"})
       THEN [operation |-> "zoom",
             parameters |->
                [scale |-> IF Has(message, {"suoxiao"}) /\ Above1(scale)
                           THEN Inverse(scale) ELSE scale]]
       ELSE IF f # 0
       THEN [operation |-> "focus",
             parameters |-> [target |-> SubSeq(message, f + 1, Len(message))]]
       ELSE NoneValue

\* dify_processor.py lines 240-254.
get_default_operation ==
    [operation |-> "rotate", parameters |-> [direction |-> "left", angle |-> 45]]

\* x or get_default_operation()
OrDefault(operation) == IF IsNone(operation) THEN get_default_operation ELSE operation

\* What call_dify_api comes to, lines 34-113: the service is not configured
\* (lines 48-50), the request fails or the answer is empty (lines 89-113), or
\* the service answers with a text, which holds one JSON operation or none.
DifyOutcomes == {"unconfigured", "failed", "answer_json", "answer_text"}

\* The operation a JSON answer of the service carries.
ServiceOperation == [operation |-> "reset"]

\* dify_processor.py lines 256-290: the operation of the returned pair.
\* extract_json_from_text yields {} for the texts "{}" and for an answer with
\* no JSON and no keyword, and json.loads gives back the dict json.dumps was
\* given for the dicts above.
process_user_message(text, dify) ==
    LET local == extract_model_operation_from_text(text)
    IN CASE dify = "unconfigured" -> OrDefault(local)
         [] dify = "failed" -> OrDefault(local)
         [] dify = "answer_json" -> ServiceOperation
         [] dify = "answer_text" -> OrDefault(local)

\* The registry main() fills, mcp_server.py lines 1474-1480.
main_operations ==
    [o \in {"rotate", "zoom", "focus", "reset"} |->
        CASE o = "rotate" -> "execute_rotate_operation"
          [] o = "zoom" -> "execute_zoom_operation"
          [] o = "focus" -> "execute_focus_operation"
          [] o = "reset" -> "execute_reset_operation"]

Translators ==
    {"parse_natural_language", "generate_mcp_command_from_nl",
     "extract_model_operation_from_text"}

TextFrame(text) == [op |-> "translate", pc |-> "text", text |-> text]

\* A call of fn on the frame's text returned result; invoked is the handler it
\* called, status the HTTP status of an endpoint (0 for a plain function).
Translated(f, fn, result, invoked, status) ==
    [op |-> "translate", pc |-> "done", text |-> f.text, fn |-> fn, result |-> result,
     invoked |-> invoked, status |-> status]

Translate(t, fn) ==
    LET f == calls[t]
    IN /\ f.op = "translate" /\ f.pc = "text"
       /\ fn \in Translators
       /\ SetCall(t, Translated(f, fn,
                     CASE fn = "parse_natural_language" -> parse_natural_language(f.text)
                       [] fn = "generate_mcp_command_from_nl" ->
                             generate_mcp_command_from_nl(f.text)
                       [] fn = "extract_model_operation_from_text" ->
                             extract_model_operation_from_text(f.text),
                     NoHandler, 0))
       /\ UNCHANGED <<active_connections, endpoint_connections, nextWs, transports>>

\* POST /api/llm/process, mcp_server.py lines 1772-1815: 400 for an empty
\* message or an empty operation, 404 for no handler, else the handler is
\* awaited and its result returned (500 when it raises).
ProcessLlmRequest(t, raised) ==
    LET f == calls[t]
        r == parse_natural_language(f.text)
        handler == Lookup(main_operations, r.operation)
    IN /\ f.op = "translate" /\ f.pc = "text"
       /\ SetCall(t, IF f.text = << >> \/ r.operation = ""
                     THEN Translated(f, "process_llm_request", r, NoHandler, 400)
                     ELSE IF handler = NoHandler
                     THEN Translated(f, "process_llm_request", r, NoHandler, 404)
                     ELSE Translated(f, "process_llm_request", r, handler,
                                     IF raised THEN 500 ELSE 200))
       /\ UNCHANGED <<active_connections, endpoint_connections, nextWs, transports>>

ProcessUserMessage(t, dify) ==
    LET f == calls[t]
    IN /\ f.op = "translate" /\ f.pc = "text"
       /\ SetCall(t, Translated(f, "process_user_message",
                                process_user_message(f.text, dify), NoHandler, 0))
       /\ UNCHANGED <<active_connections, endpoint_connections, nextWs, transports>>

InitTranslate ==
    /\ active_connections = InitActive
    /\ endpoint_connections = InitEndpoints
    /\ nextWs = 1
    /\ transports = EmptyDict
    /\ \E text \in Texts :
          calls = [t \in Tasks |-> IF t = Main THEN TextFrame(text) ELSE Idle]

NextTranslate ==
    \/ \E fn \in Translators : Translate(Main, fn)
    \/ \E raised \in BOOLEAN : ProcessLlmRequest(Main, raised)
    \/ \E dify \in DifyOutcomes : ProcessUserMessage(Main, dify)

SpecTranslate == InitTranslate /\ [][NextTranslate]_vars

\* The operation of a result: "" for None.
OperationOf(result) == IF IsNone(result) THEN "" ELSE result.operation

\* The operation of the first rule, in the order rotate, zoom, focus, reset,
\* that has a keyword in the message; "" when none has.
FirstRule(fn, message) ==
    LET hits == {i \in 1..Len(Rules) : Has(message, RuleWords(fn, Rules[i]))}
    IN IF hits = {} THEN ""
       ELSE Rules[CHOOSE i \in hits : \A j \in hits : i <= j]

\* The translators of the /api/llm/process and /api/mcp/nl-command endpoints.
EndpointTranslators == {"parse_natural_language", "generate_mcp_command_from_nl"}

\* C28: whatever the case of the letters, parse_natural_language and
\* generate_mcp_command_from_nl return the operation of the first rule, in the
\* order rotate, zoom, focus, reset, one of whose keywords occurs in the text.
TranslatesByPriority ==
    LET f == calls[Main]
    IN (f.op = "translate" /\ f.pc = "done" /\ f.fn \in EndpointTranslators) =>
          OperationOf(f.result) = FirstRule(f.fn, Lower(f.text))

PriorityWitness ==
    LET f == calls[Main]
    IN /\ f.op = "translate" /\ f.pc = "done" /\ f.fn = "parse_natural_language"
       /\ f.text = <<"chongzhi", "ROTATE">>
       /\ f.result.operation = "rotate"

NoKeyword(message) ==
    \A fn \in Translators : \A i \in 1..Len(Rules) : ~Has(message, RuleWords(fn, Rules[i]))

\* The empty operation with empty parameters; None for the functions that
\* return an object or None.
IsEmptyOperation(result) ==
    \/ IsNone(result)
    \/ result = [operation |-> "", parameters |-> EmptyDict]

\* C29: for a text with no keyword of any rule every translator and every
\* natural-language entry point yields the empty operation with empty
\* parameters, no default operation, and invokes no handler.
NoKeywordNoOperation ==
    LET f == calls[Main]
    IN (f.op = "translate" /\ f.pc = "done" /\ NoKeyword(Lower(f.text))) =>
          /\ IsEmptyOperation(f.result)
          /\ f.invoked = NoHandler

\* The literal scale the function extracts from the message.
LiteralOf(fn, message) ==
    IF fn = "parse_natural_language" THEN ParseLiteral(message) ELSE DifyLiteral(message)

\* C30: when parse_natural_language or extract_model_operation_from_text
\* returns zoom for a text with a shrink keyword, the scale is below 1, and it
\* is 1/scale when a literal scale above 1 was extracted.
ShrinkScalesBelowOne ==
    LET f == calls[Main]
        message == Lower(f.text)
    IN (/\ f.op = "translate" /\ f.pc = "done"
        /\ f.fn \in {"parse_natural_language", "extract_model_operation_from_text"}
        /\ OperationOf(f.result) = "zoom"
        /\ Has(message, ShrinkWords(f.fn))) =>
          /\ Below1(f.result.parameters.scale)
          /\ Above1(LiteralOf(f.fn, message)) =>
                f.result.parameters.scale = Inverse(LiteralOf(f.fn, message))

\* The direction each directional word of the vocabulary names.
DirectionOf(w) ==
    CASE w = "zuo" -> "left" [] w = "you" -> "right" [] w = "shang" -> "up" [] OTHER -> ""

DirectionsIn(message) ==
    {DirectionOf(message[i]) : i \in 1..Len(message)} \ {""}

\* The default angle: 30 in parse_natural_language, 45 in generate_mcp_command_from_nl.
DefaultAngles == {30, 45}

\* C31: when parse_natural_language or generate_mcp_command_from_nl returns
\* rotate, the direction is that of a directional keyword of the text, left
\* when the text has none, and the angle is the number before the degree
\* marker, the default angle when the text has none.
RotateTakesDirectionAndAngle ==
    LET f == calls[Main]
        message == Lower(f.text)
    IN (/\ f.op = "translate" /\ f.pc = "done" /\ f.fn \in EndpointTranslators
        /\ OperationOf(f.result) = "rotate") =>
          /\ IF DirectionsIn(message) = {}
             THEN f.result.parameters.direction = "left"
             ELSE f.result.parameters.direction \in DirectionsIn(message)
          /\ IF Has(message, {"90du"})
             THEN f.result.parameters.angle = 90
             ELSE f.result.parameters.angle \in DefaultAngles

----------------------------------------------------------------------------
(* ConnectionManager.connect: two calls on the event loop at once *)

\* An older connection of session "a" on the command channel, from a third
\* origin, on a transport that no later accept hands out.
OldWs == MaxWs + 1

OldSession == <<"a">>

OldClient == ClientIdOf("h3", OldSession)

\* The registry after connect returned OldClient for OldWs.
InitRace ==
    LET r == Register(InitActive, InitEndpoints, OldWs, "command", OldSession, OldClient)
    IN /\ active_connections = r.ac
       /\ endpoint_connections = r.ec
       /\ nextWs = 1
       /\ transports = DictPut(EmptyDict, OldWs,
                               [endpoint_type |-> "command", client_id |-> OldClient])
       /\ calls = [t \in Tasks |-> Idle]

\* Each task is the endpoint coroutine of one new connection: the event loop
\* runs one of them up to its next await, then either of them.
NextRace ==
    \E t \in Tasks :
        \/ \E host \in Hosts : ConnectAccept(t, host, "command", OldSession, NoMessage, TRUE, "ua")
        \/ ConnectScan(t)
        \/ \E ok \in BOOLEAN : ConnectNotice(t, ok)
        \/ ConnectClose(t)

SpecRace == InitRace /\ [][NextRace]_vars

\* The client ids the registry holds for a session on a channel.
LiveFor(session_id, endpoint_type) ==
    {id \in DOMAIN active_connections :
        /\ active_connections[id].session_id = session_id
        /\ active_connections[id].endpoint_type = endpoint_type}

\* C32: once two connects of one session and channel from different origins
\* have both returned, however their steps interleaved, the registry holds
\* exactly one connection of that session on that channel.
OverlappingConnectsLeaveOne ==
    LET f == calls["t1"]
        g == calls["t2"]
    IN (/\ f.op = "connect" /\ f.pc = "done"
        /\ g.op = "connect" /\ g.pc = "done"
        /\ f.session_id = g.session_id /\ f.endpoint_type = g.endpoint_type
        /\ f.client_id # g.client_id) =>
          Cardinality(LiveFor(f.session_id, f.endpoint_type)) = 1

----------------------------------------------------------------------------
(* Further properties of the registry *)

\* The channels whose index holds the client id.
ChannelsOf(id) == {ch \in DOMAIN endpoint_connections : id \in DOMAIN endpoint_connections[ch]}

IndexedIds == UNION {DOMAIN endpoint_connections[ch] : ch \in DOMAIN endpoint_connections}

\* C33: after any sequence of connect, disconnect, send_to_client and
\* broadcast calls, a client id is a key of active_connections exactly when
\* it is a key of exactly one channel index; that channel is the record's
\* endpoint_type and both entries hold the same transport.
IndicesAgree ==
    Quiet =>
        \A id \in DOMAIN active_connections \cup IndexedIds :
            /\ id \in DOMAIN active_connections <=> Cardinality(ChannelsOf(id)) = 1
            /\ id \in DOMAIN active_connections =>
                  \A ch \in ChannelsOf(id) :
                      /\ ch = active_connections[id].endpoint_type
                      /\ endpoint_connections[ch][id] = active_connections[id].websocket

\* C34: a disconnect issued by the handler of an old connection, with its own
\* transport and its client id, leaves the record in place when a newer
\* connection has since been registered under that client id with another
\* transport.
LateDisconnectKeepsNewer ==
    [][ LET ac == active_connections
            cid == calls'[Main].client_id
        IN (/\ calls'[Main].op = "disconnect"
            /\ cid # EmptyStr
            /\ cid \in DOMAIN ac
            /\ ac[cid].websocket # calls'[Main].websocket) =>
              /\ cid \in DOMAIN active_connections'
              /\ active_connections'[cid] = ac[cid]
              /\ endpoint_connections' = endpoint_connections
      ]_vars

----------------------------------------------------------------------------
(* A broadcast and the endpoint coroutine of a new connection on one loop *)

Sweeper == "t1"

Connector == "t2"

\* The hosts connecting during the sweep: the host of the registered
\* connection and another one.
SweepHosts == {"h3", "h1"}

\* Lines 331-343 follow the last send without an await: the loop runs nothing
\* else between the return of that send and the return of broadcast.
Suspended == calls[Sweeper].pc # "cleanup"

\* The event loop runs the broadcast up to its next send and the connect up to
\* its next await, in any order.
NextSweep ==
    \/ \E ep \in {"", "command"} : BroadcastStart(Sweeper, ep, EmptyStr)
    \/ \E ok \in BOOLEAN : BroadcastSend(Sweeper, ok)
    \/ BroadcastReturn(Sweeper)
    \/ \E host \in SweepHosts :
          /\ Suspended
          /\ ConnectAccept(Connector, host, "command", OldSession, NoMessage, TRUE, "ua")
    \/ Suspended /\ ConnectScan(Connector)
    \/ \E ok \in BOOLEAN : Suspended /\ ConnectNotice(Connector, ok)
    \/ Suspended /\ ConnectClose(Connector)

SpecSweep == InitRace /\ [][NextSweep]_vars

\* The entries of the snapshot whose send_json raised in the sweep of f.
FailedInSweep(f) == {p \in DOMAIN f.sends : f.sends[p] > 0 /\ p \notin f.returned}

\* C35: the cleanup at the end of a broadcast removes only connections whose
\* own transport failed in that sweep; a connection registered, or
\* registered again under the same client id, while the sweep was suspended
\* on a send stays registered.
PruneRemovesOnlyFailedTransports ==
    [][ (calls[Sweeper].op = "broadcast" /\ calls[Sweeper].pc = "cleanup"
            /\ calls'[Sweeper].pc = "done") =>
          \A cid \in DOMAIN active_connections :
              (cid \notin DOMAIN active_connections'
                  \/ \E ch \in DOMAIN endpoint_connections :
                        /\ cid \in DOMAIN endpoint_connections[ch]
                        /\ cid \notin DOMAIN endpoint_connections'[ch]) =>
                 <<cid, active_connections[cid].websocket>> \in FailedInSweep(calls[Sweeper])
      ]_vars

----------------------------------------------------------------------------
(* The endpoint functions from connect's bounded wait to their receive loop *)

\* Lines 191-205 and 245-257 as run by lines 1877 and 1688: wait_for returns
\* the message that arrived within the wait, or times out when none did.  The
\* messages of LoopData carry no sessionId, so the session of the cookie is
\* kept; the connection is saved and the endpoint enters its loop.
ConnectSniff(t) ==
    LET f == calls[t]
        c == CHOOSE x \in LoopClients : x.websocket = f.websocket
        got == f.inbox # << >>
        r == Register(active_connections, endpoint_connections, f.websocket,
                      c.endpoint_type, c.session_id, f.client_id)
    IN /\ f.op = "endpoint" /\ f.pc = "wait"
       /\ active_connections' = r.ac
       /\ endpoint_connections' = r.ec
       /\ SetCall(t, [f EXCEPT !.pc = "receive",
                               !.first_message = IF got THEN Head(f.inbox).n ELSE 0,
                               !.inbox = IF got THEN Tail(@) ELSE @])
       /\ UNCHANGED <<nextWs, transports>>

\* Two transports accepted, one per endpoint, each in connect's wait.
InitSniff ==
    /\ active_connections = InitActive
    /\ endpoint_connections = InitEndpoints
    /\ nextWs = 3
    /\ transports = [w \in {1, 2} |->
                       LET c == CHOOSE x \in LoopClients : x.websocket = w
                       IN [endpoint_type |-> c.endpoint_type, client_id |-> c.client_id]]
    /\ calls = [t \in Tasks |->
                  [op |-> "endpoint", pc |-> "wait", entry |-> EndpointOf(t),
                   websocket |-> TransportOf(t),
                   client_id |-> transports[TransportOf(t)].client_id,
                   inbox |-> << >>, arrived |-> 0, n |-> 0, cur |-> Idle,
                   log |-> << >>, first_message |-> 0]]

NextSniff ==
    \E t \in Tasks :
       \/ \E data \in LoopData : Arrive(t, data)
       \/ ConnectSniff(t)
       \/ LoopReceive(t)
       \/ \E outcome \in HandlerOutcomes : LoopInvoke(t, outcome)
       \/ \E ok \in BOOLEAN : LoopRespond(t, ok)
       \/ LoopDisconnect(t)

SpecSniff == InitSniff /\ [][NextSniff]_vars

\* C36: no inbound message is lost to connect's wait for a session token:
\* every message that arrived on a connection is still waiting to be received
\* by the endpoint's loop, or the loop has started processing it.
NoMessageLostToWait ==
    \A t \in Tasks :
        LET f == calls[t]
        IN \A k \in 1..f.arrived :
              \/ \E i \in 1..Len(f.inbox) : f.inbox[i].n = k
              \/ \E j \in 1..Len(f.log) : f.log[j] = <<"start", k>>

----------------------------------------------------------------------------
(* The counts and lists the registry reports *)

\* Lines 403-407.
get_active_connections_count(ac, ec, endpoint_type) ==
    IF endpoint_type # "" /\ endpoint_type \in DOMAIN ec
    THEN Cardinality(DOMAIN ec[endpoint_type])
    ELSE Cardinality(DOMAIN ac)

\* Lines 409-413.
get_active_clients(ac, ec, endpoint_type) ==
    IF endpoint_type # "" /\ endpoint_type \in DOMAIN ec
    THEN DOMAIN ec[endpoint_type]
    ELSE DOMAIN ac

\* C37: a connect on one channel leaves the connections of the other channels
\* as they are in the global index and in their channel index, and once it
\* has registered, the count and the list of clients report them together
\* with the new connection.
ConnectLeavesOtherChannels ==
    [][ calls'[Main].op = "connect" =>
          LET ac == active_connections
              ec == endpoint_connections
              B == calls'[Main].endpoint_type
              others == {x \in DOMAIN ac : ac[x].endpoint_type # B}
          IN /\ \A x \in others :
                   /\ x \in DOMAIN active_connections'
                   /\ active_connections'[x] = ac[x]
                   /\ \A ch \in DOMAIN ec :
                         x \in DOMAIN ec[ch] =>
                            /\ x \in DOMAIN endpoint_connections'[ch]
                            /\ endpoint_connections'[ch][x] = ec[ch][x]
             /\ (calls[Main].pc # "done" /\ calls'[Main].pc = "done") =>
                   /\ get_active_connections_count(active_connections',
                          endpoint_connections', "") >= Cardinality(others) + 1
                   /\ others \cup {calls'[Main].client_id} \subseteq
                          get_active_clients(active_connections',
                              endpoint_connections', "")
      ]_vars

----------------------------------------------------------------------------
(* handle_command for a command that arrives on a transport the registry *)
(* no longer holds                                                       *)

\* uuid.uuid4().hex[:8] of lines 387 and 557.
Uuid8 == "u8"

\* websocket.client.host of an accepted transport.
HostOf(websocket) == transports[websocket].client_id[1]

\* get_client_by_websocket, lines 371-401: the id of the record that holds
\* the websocket; else an active id that starts with the host of the
\* websocket (the first one in dict order, here any of them); else a
\* temporary id, for which a connect is scheduled with create_task.
GetClientByWebsocket(ac, websocket, host) ==
    LET found == {cid \in DOMAIN ac : ac[cid].websocket = websocket}
        guessed == {cid \in DOMAIN ac : cid[1] = host}
    IN IF found # {}
       THEN {[client_id |-> CHOOSE cid \in found : TRUE, scheduled |-> FALSE]}
       ELSE IF guessed # {}
       THEN {[client_id |-> cid, scheduled |-> FALSE] : cid \in guessed}
       ELSE {[client_id |-> ClientIdOf(host, <<Uuid8>>), scheduled |-> TRUE]}

\* Line 551 is reached by handle_command once the command names an operation.
LooksUpClient(s) ==
    /\ s.fn = "handle_command"
    /\ s.response.message # Message("missing_operation", "")

\* The task of line 395: connect(websocket, "command", client_id=temp_id),
\* before its accept.  The session token is the one the headers of the
\* websocket gave when it connected.
ScheduledConnect(websocket, client_id) ==
    [op |-> "connect", pc |-> "accept", websocket |-> websocket,
     endpoint_type |-> "command", session_id |-> Tail(transports[websocket].client_id),
     client_id |-> client_id,
     pending |-> {}, cur |-> <<EmptyStr, NoWs>>, dups |-> {}, events |-> << >>,
     cookie |-> Tail(transports[websocket].client_id), user_agent |-> "ua",
     first |-> NoMessage, confirmed |-> TRUE]

\* A command arrives on an accepted transport, registered or not, and the
\* dispatch runs to its first await.
CommandArrive(t, entry, websocket, data) ==
    LET s == CommandFrame(entry, websocket, EmptyStr, data)
    IN /\ Ready(t)
       /\ websocket \in DOMAIN transports
       /\ IF LooksUpClient(s)
          THEN \E g \in GetClientByWebsocket(active_connections, websocket, HostOf(websocket)) :
                  /\ g.scheduled => Ready(Connector)
                  /\ calls' = [calls EXCEPT
                        ![t] = [s EXCEPT !.client_id = g.client_id],
                        ![Connector] = IF g.scheduled
                                       THEN ScheduledConnect(websocket, g.client_id)
                                       ELSE @]
          ELSE SetCall(t, s)
       /\ UNCHANGED <<active_connections, endpoint_connections, nextWs, transports>>

\* Line 174 in the scheduled task: websocket.accept() on a transport that was
\* accepted before returns, or raises and ends the task.
ScheduledAccept(t, ok) ==
    LET f == calls[t]
    IN /\ f.op = "connect" /\ f.pc = "accept"
       /\ SetCall(t, IF ok THEN [f EXCEPT !.pc = "scan"] ELSE Idle)
       /\ UNCHANGED <<active_connections, endpoint_connections, nextWs, transports>>

\* A live connection of host h1; a transport of the same host and of another
\* session, and a transport of host h2 with the live connection's session,
\* both accepted earlier and since removed from the registry.
InitStale ==
    LET r == Register(InitActive, InitEndpoints, 1, "command", <<"a">>,
                      ClientIdOf("h1", <<"a">>))
    IN /\ active_connections = r.ac
       /\ endpoint_connections = r.ec
       /\ nextWs = 4
       /\ transports = [w \in {1, 2, 3} |->
                          [endpoint_type |-> "command",
                           client_id |-> <<ClientIdOf("h1", <<"a">>),
                                           ClientIdOf("h1", <<"b">>),
                                           ClientIdOf("h2", <<"a">>)>>[w]]]
       /\ calls = [t \in Tasks |-> Idle]

NextStale ==
    \/ \E entry \in {"/ws/mcp", "/ws/command"}, ws \in DOMAIN transports, data \in LoopData :
          CommandArrive(Main, entry, ws, data)
    \/ \E outcome \in HandlerOutcomes : CommandInvoke(Main, outcome)
    \/ \E ok \in BOOLEAN : CommandRespond(Main, ok)
    \/ \E ok \in BOOLEAN : ScheduledAccept(Connector, ok)
    \/ ConnectScan(Connector)
    \/ \E ok \in BOOLEAN : ConnectNotice(Connector, ok)
    \/ ConnectClose(Connector)

SpecStale == InitStale /\ [][NextStale]_vars

\* The command being handled is attributed to the client of its own transport.
OwnClient(f) ==
    (f.op = "command" /\ f.client_id \in DOMAIN active_connections) =>
        active_connections[f.client_id].websocket = f.websocket

\* C38: handling a command changes no registry membership and attributes the
\* command to no other client: a command on a transport the registry no
\* longer holds does not register that transport again, retires no live
\* connection and does not get the client id of another connection.
CommandKeepsRegistry ==
    [][ /\ active_connections' = active_connections
        /\ endpoint_connections' = endpoint_connections
        /\ OwnClient(calls'[Main])
      ]_vars

----------------------------------------------------------------------------
(* The order of a batch *)

\* The batch has recorded one result for each sub-command before the one it
\* is at, the k-th handler looked up is that of the k-th sub-command, a handler
\* is awaited only when the results of all sub-commands before it are
\* recorded, and the k-th result is the failure entry of an unknown operation
\* exactly when the k-th sub-command resolved to no handler.
InSubmissionOrder(f) ==
    /\ Len(f.results) = f.i - 1
    /\ Len(f.resolved) = IF f.pc = "invoke" THEN f.i ELSE f.i - 1
    /\ \A k \in 1..Len(f.resolved) : f.resolved[k] = get_handler(f.commands[k].operation)
    /\ \A k \in 1..Len(f.results) :
          (f.resolved[k] = NoHandler) <=>
             f.results[k] = Result(FALSE, Message("unknown_operation", f.commands[k].operation))

\* The sub-commands before the first one whose processing raises.
BeforeRaise(f) ==
    {k \in 1..Len(f.commands) : \A j \in 1..k : Hashable(f.commands[j].operation)}

----------------------------------------------------------------------------
(* The HTTP endpoints and the command channel given the same operation *)

\* The operation names submitted on both surfaces.
SurfaceOperations ==
    {"", "rotate", "zoom", "focus", "reset", "highlight", "js", "batch", "bogus"}

HttpEndpoints == {"/api/execute", "/api/llm/process"}

\* POST /api/execute, lines 1822-1845, and POST /api/llm/process from the
\* operation parse_natural_language returned, lines 1790-1803: up to the
\* awaited handler, or the error response.
execute_operation(endpoint, operation) ==
    LET handler == Lookup(main_operations, operation)
        f == [op |-> "http", pc |-> "done", endpoint |-> endpoint,
              operation |-> operation, handler |-> NoHandler,
              code |-> 0, status |-> "error", outcome |-> NoResult]
    IN IF ~Truthy(operation) THEN [f EXCEPT !.code = 400]
       ELSE IF handler = NoHandler THEN [f EXCEPT !.code = 404]
       ELSE [f EXCEPT !.pc = "invoke", !.handler = handler]

\* Lines 1847-1858 and 1805-1815: result = await handler(parameters) and the
\* response; the except clause answers 500 for a handler that raised.
HttpResponded(f, outcome) ==
    IF outcome = Raised
    THEN [f EXCEPT !.pc = "done", !.code = 500, !.status = "error", !.outcome = outcome]
    ELSE [f EXCEPT !.pc = "done", !.code = 200, !.status = "success", !.outcome = outcome]

\* {"type": "mcp.command", "action": operation, "id": "i1"}
CommandFor(operation) ==
    [type |-> "mcp.command", id |-> "i1", command_id |-> Absent, action |-> operation,
     operation |-> Absent, has_command |-> FALSE, command_action |-> Absent,
     command_inner_id |-> Absent]

\* The operation is posted to an HTTP endpoint (task t1) and sent as a command
\* over /ws/mcp by the registered client (task t2).  The text endpoint gets
\* the operations the translator returns.
Submit(endpoint, operation) ==
    /\ \A t \in Tasks : Ready(t)
    /\ endpoint = "/api/llm/process" => operation \in DOMAIN main_operations \cup {""}
    /\ calls' = [calls EXCEPT
          !["t1"] = execute_operation(endpoint, operation),
          !["t2"] = CommandFrame("/ws/mcp", 1,
                        get_client_by_websocket(active_connections, 1),
                        CommandFor(operation))]
    /\ UNCHANGED <<active_connections, endpoint_connections, nextWs, transports>>

HttpInvoke(t, outcome) ==
    /\ calls[t].op = "http" /\ calls[t].pc = "invoke"
    /\ SetCall(t, HttpResponded(calls[t], outcome))
    /\ UNCHANGED <<active_connections, endpoint_connections, nextWs, transports>>

NextSurface ==
    \/ \E endpoint \in HttpEndpoints, operation \in SurfaceOperations :
          Submit(endpoint, operation)
    \/ \E outcome \in HandlerOutcomes : HttpInvoke("t1", outcome)
    \/ \E outcome \in HandlerOutcomes : CommandInvoke("t2", outcome)
    \/ \E ok \in BOOLEAN : CommandRespond("t2", ok)

SpecSurface == InitCmd /\ [][NextSurface]_vars

\* C40: for the same operation in the same state the two surfaces resolve
\* the operation or both do not, and when the handler did the same on both,
\* the HTTP response has status success exactly when the mcp.response has.
SurfacesAgree ==
    LET h == calls["t1"]
        c == calls["t2"]
    IN (h.op = "http" /\ c.op = "command") =>
          /\ (h.handler # NoHandler) <=> (c.handler # NoHandler)
          /\ (h.pc = "done" /\ c.pc \in {"respond", "done"} /\ h.outcome = c.outcome) =>
                ((h.status = "success") <=> (c.response.status = "success"))

====
